---- MODULE Spec2Model ----
(***************************************************************************)
(* The tool-orchestration loop of the mobile shopping agent.               *)
(*                                                                         *)
(* Two implementations of ShoppingAgent live in the repository:            *)
(*   impl = "agent"  src/backend/agent/agent_builder.py                    *)
(*   impl = "app"    src/backend/app/agent/agent_builder.py                *)
(* A behaviour fixes one of them in Init and runs it.                      *)
(*                                                                         *)
(* Text is a sequence of tokens; one token is an atomic piece of text (a   *)
(* word, a separator, a rendered record).  `a in b` of Python is "a is a   *)
(* contiguous subsequence of b", concatenation is \o.  The table marker    *)
(* "---" is one token.  None is the text NoneText.                         *)
(***************************************************************************)
EXTENDS Integers, Sequences, FiniteSets, TLC

(***************************************************************************)
(* Program constants.                                                      *)
(***************************************************************************)
max_iterations == 5
HistoryCap == 20
CardCap == 5
CompareMinNames == 2
CompareMaxNames == 4
DefaultLimit == 5
FacadeDefaultLimit == 10
max_workers == 4
CompactMaxSize10 == 64

(***************************************************************************)
(* Bounds of the model.                                                    *)
(***************************************************************************)
NReq == 2
NStream == 5
MaxLimit == 7
NClear == 1
MaxOps == 3

Reqs == 1 .. NReq

(***************************************************************************)
(* Text helpers.                                                           *)
(***************************************************************************)
NoneText == << "<None>" >>
EmptyText == << >>
TableMarker == << "---" >>
AnalysisHeader == << "## Analysis" >>
Whitespace == { " ", "\n" }

\* Python truthiness of an optional string: None and "" are falsy.
Truthy(t) == t # NoneText /\ t # EmptyText

\* Python `a or b` on optional strings.
OrElse(a, b) == IF Truthy(a) THEN a ELSE b

\* Python `sub in s`.
Contains(s, sub) ==
  \E i \in 0 .. (Len(s) - Len(sub)) : SubSeq(s, i + 1, i + Len(sub)) = sub

\* Python str.lower(), token by token.
LowerTok(tok) ==
  CASE tok = "Pixel" -> "pixel"
    [] tok = "Pro" -> "pro"
    [] tok = "Galaxy" -> "galaxy"
    [] tok = "Nord" -> "nord"
    [] tok = "Google" -> "google"
    [] tok = "Samsung" -> "samsung"
    [] tok = "OnePlus" -> "oneplus"
    [] tok = "iQOO" -> "iqoo"
    [] tok = "S24" -> "s24"
    [] tok = "Neo" -> "neo"
    [] tok = "Camera" -> "camera"
    [] OTHER -> tok

Lower(s) == [i \in 1 .. Len(s) |-> LowerTok(s[i])]

\* Python str.strip(): leading and trailing whitespace removed.
RECURSIVE LStrip(_)
LStrip(s) == IF s # << >> /\ Head(s) \in Whitespace THEN LStrip(Tail(s)) ELSE s

RECURSIVE RStrip(_)
RStrip(s) ==
  IF s # << >> /\ s[Len(s)] \in Whitespace THEN RStrip(SubSeq(s, 1, Len(s) - 1)) ELSE s

Strip(s) == RStrip(LStrip(s))

\* Python s.split(sep) for a one-token separator: the list of the pieces.
RECURSIVE SplitAcc(_, _, _)
SplitAcc(s, sep, cur) ==
  IF s = << >> THEN << cur >>
  ELSE IF Head(s) = sep THEN << cur >> \o SplitAcc(Tail(s), sep, << >>)
  ELSE SplitAcc(Tail(s), sep, Append(cur, Head(s)))

Split(s, sep) == SplitAcc(s, sep, << >>)

\* len() of a text in characters.
TokLen(tok) ==
  CASE tok \in { " ", "8", "a", "\n", "," } -> 1
    [] tok \in { "Pro", "pro", "S24", "s24", "Neo", "neo", "zzz" } -> 3
    [] tok \in { "Nord", "nord" } -> 4
    [] tok \in { "Pixel", "pixel" } -> 5
    [] tok \in { "Galaxy", "galaxy" } -> 6
    [] OTHER -> 7

RECURSIVE StrLen(_)
StrLen(s) == IF s = << >> THEN 0 ELSE TokLen(Head(s)) + StrLen(Tail(s))

(***************************************************************************)
(* Sequence helpers.                                                       *)
(***************************************************************************)
\* Python s[:n] (n may be zero or negative).
Take(s, n) ==
  IF n >= 0 THEN SubSeq(s, 1, IF n < Len(s) THEN n ELSE Len(s))
  ELSE SubSeq(s, 1, IF Len(s) + n > 0 THEN Len(s) + n ELSE 0)

\* Python s[-n:] for n > 0.
LastN(s, n) == IF Len(s) <= n THEN s ELSE SubSeq(s, Len(s) - n + 1, Len(s))

\* list.sort(key=...) on a list of [k |-> key, p |-> item]: stable, ascending.
RECURSIVE InsertAsc(_, _)
InsertAsc(x, s) ==
  IF s = << >> THEN << x >>
  ELSE IF x.k < Head(s).k THEN << x >> \o s
  ELSE << Head(s) >> \o InsertAsc(x, Tail(s))

RECURSIVE SortAsc(_)
SortAsc(s) ==
  IF s = << >> THEN << >>
  ELSE InsertAsc(s[Len(s)], SortAsc(SubSeq(s, 1, Len(s) - 1)))

\* list.sort(key=..., reverse=True): stable, descending.
RECURSIVE InsertDesc(_, _)
InsertDesc(x, s) ==
  IF s = << >> THEN << x >>
  ELSE IF x.k > Head(s).k THEN << x >> \o s
  ELSE << Head(s) >> \o InsertDesc(x, Tail(s))

RECURSIVE SortDesc(_)
SortDesc(s) ==
  IF s = << >> THEN << >>
  ELSE InsertDesc(s[Len(s)], SortDesc(SubSeq(s, 1, Len(s) - 1)))

Items(s) == [i \in 1 .. Len(s) |-> s[i].p]

(***************************************************************************)
(* Optional values.  An Optional[int] is [some, v]; an optional string is  *)
(* a string with NoneStr for None.                                         *)
(***************************************************************************)
NoneInt == [some |-> FALSE, v |-> 0]
SomeInt(n) == [some |-> TRUE, v |-> n]
\* Python truthiness of an Optional[int]: None and 0 are falsy.
TruthyInt(x) == x.some /\ x.v # 0
NoneStr == "<None>"
TruthyStr(x) == x # NoneStr /\ x # ""

(***************************************************************************)
(* The dataset (phones.json is read-only input of the program): six        *)
(* records in file order.  Prices are in thousands of rupees, size10 is    *)
(* the display size in tenths of an inch, rating10 the rating in tenths.   *)
(***************************************************************************)
Phones ==
  << [id |-> "px8", name |-> << "Pixel", " ", "8" >>, brand |-> "Google",
      price |-> 60, ram |-> 8, fiveg |-> TRUE, capacity |-> 4500,
      charging |-> << "27W" >>, refresh |-> 120, size10 |-> 62, main_mp |-> 50,
      telephoto |-> FALSE, features |-> { "OIS" }, rating10 |-> 44,
      processor |-> "tensor g3", highlights |-> << "camera" >>],
     [id |-> "px8p", name |-> << "Pixel", " ", "8", " ", "Pro" >>, brand |-> "Google",
      price |-> 100, ram |-> 12, fiveg |-> TRUE, capacity |-> 5000,
      charging |-> << "30W", " ", "Wireless" >>, refresh |-> 120, size10 |-> 67,
      main_mp |-> 50, telephoto |-> TRUE, features |-> { "OIS" }, rating10 |-> 46,
      processor |-> "tensor g3", highlights |-> << "camera" >>],
     [id |-> "gs24", name |-> << "Galaxy", " ", "S24" >>, brand |-> "Samsung",
      price |-> 80, ram |-> 8, fiveg |-> TRUE, capacity |-> 4000,
      charging |-> << "25W", " ", "Wireless" >>, refresh |-> 120, size10 |-> 62,
      main_mp |-> 50, telephoto |-> TRUE, features |-> { "OIS", "8K Video" },
      rating10 |-> 45, processor |-> "snapdragon 8 gen 3", highlights |-> << >>],
     [id |-> "nord", name |-> << "Nord" >>, brand |-> "OnePlus",
      price |-> 30, ram |-> 8, fiveg |-> TRUE, capacity |-> 5000,
      charging |-> << "80W" >>, refresh |-> 120, size10 |-> 67, main_mp |-> 50,
      telephoto |-> FALSE, features |-> { "OIS" }, rating10 |-> 42,
      processor |-> "snapdragon 7 gen 3", highlights |-> << >>],
     [id |-> "ga15", name |-> << "Galaxy", " ", "a" >>, brand |-> "Samsung",
      price |-> 15, ram |-> 6, fiveg |-> FALSE, capacity |-> 5000,
      charging |-> << "25W" >>, refresh |-> 90, size10 |-> 65, main_mp |-> 48,
      telephoto |-> FALSE, features |-> { }, rating10 |-> 40,
      processor |-> "helio g99", highlights |-> << >>],
     [id |-> "neo", name |-> << "Neo" >>, brand |-> "iQOO",
      price |-> 35, ram |-> 12, fiveg |-> TRUE, capacity |-> 5000,
      charging |-> << "120W" >>, refresh |-> 144, size10 |-> 68, main_mp |-> 50,
      telephoto |-> FALSE, features |-> { "OIS" }, rating10 |-> 43,
      processor |-> "snapdragon 8 gen 2", highlights |-> << "gaming" >>] >>

NoPhone == [id |-> NoneStr]
Ids(ps) == [i \in 1 .. Len(ps) |-> ps[i].id]

(***************************************************************************)
(* PhoneService (the dataset query facade).                                *)
(***************************************************************************)
\* `results = [p for p in results if ...]` under `if <filter is given>`.
Where(given, results, Test(_)) == IF given THEN SelectSeq(results, Test) ELSE results

\* The (score, phone) pairs a ranking sorts.
Keyed(results, Key(_)) ==
  [i \in 1 .. Len(results) |-> [k |-> Key(results[i]), p |-> results[i]]]

\* `a or b` on lookups, and `if phone: phones.append(phone)`.
OrPhone(a, b) == IF a # NoPhone THEN a ELSE b
Found(phone) == IF phone # NoPhone THEN << phone >> ELSE << >>

\* The first phone of a list, None when there is none.
FirstOrNone(hits) == IF hits = << >> THEN NoPhone ELSE Head(hits)

get_phone_by_id(phone_id) == FirstOrNone(SelectSeq(Phones, LAMBDA p : << p.id >> = phone_id))

\* The exact match, else the shortest name containing the text.
\* Variant: the first record containing the text, exact or not.
MatchFirstContaining(phones, name_lower) ==
  FirstOrNone(SelectSeq(phones, LAMBDA p : Contains(Lower(p.name), name_lower)))

\* The same lookup over self.phones in any order.
MatchNameIn(phones, name_lower) ==
  OrPhone(FirstOrNone(SelectSeq(phones, LAMBDA p : Lower(p.name) = name_lower)),
          FirstOrNone(Items(SortAsc(Keyed(
            SelectSeq(phones, LAMBDA p : Contains(Lower(p.name), name_lower)),
            LAMBDA p : StrLen(p.name))))))

MatchName(name_lower) == MatchNameIn(Phones, name_lower)

get_phone_by_name(name) == MatchName(Strip(Lower(name)))

Count(b) == IF b THEN 1 ELSE 0

RECURSIVE HighlightHits(_, _)
HighlightHits(hs, q) ==
  IF hs = << >> THEN 0
  ELSE Count(Contains(Lower(<< Head(hs) >>), q)) + HighlightHits(Tail(hs), q)

QueryScore(p, query_lower) ==
    10 * Count(Contains(Lower(p.name), query_lower))
  + 5 * Count(Contains(Lower(<< p.brand >>), query_lower))
  + 3 * HighlightHits(p.highlights, query_lower)
  + 2 * Cardinality({ f \in p.features : Contains(Lower(<< f >>), query_lower) })
  + 2 * Count(Contains(<< p.processor >>, query_lower))

\* The text-query block of search_phones: score, keep the hits, sort by score.
RankByQuery(results, query_lower) ==
  Items(SortDesc(Keyed(SelectSeq(results, LAMBDA p : QueryScore(p, query_lower) > 0),
                       LAMBDA p : QueryScore(p, query_lower))))

search_phones(query, brand, min_price, max_price, min_ram, has_5g, min_battery, limit) ==
  LET r1 == Where(TruthyStr(brand), Phones, LAMBDA p : LowerTok(p.brand) = LowerTok(brand))
      r2 == Where(min_price.some, r1, LAMBDA p : p.price >= min_price.v)
      r3 == Where(max_price.some, r2, LAMBDA p : p.price <= max_price.v)
      r4 == Where(min_ram.some, r3, LAMBDA p : p.ram >= min_ram.v)
      r5 == Where(has_5g # NoneStr, r4, LAMBDA p : p.fiveg = (has_5g = "true"))
      r6 == Where(min_battery.some, r5, LAMBDA p : p.capacity >= min_battery.v)
      Ranked(results) == IF Truthy(query) THEN RankByQuery(results, Lower(query)) ELSE results
  IN  Take(Ranked(r6), limit)

\* Scores are scaled by 10 to stay in the integers.
CameraScore10(p) ==
    p.main_mp
  + 200 * Count(p.telephoto)
  + 100 * Count("OIS" \in p.features)
  + 150 * Count({ "Hasselblad", "Leica", "ZEISS" } \cap p.features # { })
  + 100 * Count("8K Video" \in p.features)
  + 80 * Count({ "ProRAW", "ProRes" } \cap p.features # { })
  + p.rating10 * 5

get_best_camera_phones(max_price, limit) ==
  LET results == Where(TruthyInt(max_price), Phones, LAMBDA p : p.price <= max_price.v)
  IN  Items(Take(SortDesc(Keyed(results, CameraScore10)), limit))

HasTok(text, tok) == Contains(text, << tok >>)

\* Scaled by 100.
BatteryScore100(p) ==
    p.capacity
  + ( IF HasTok(p.charging, "120W") \/ HasTok(p.charging, "125W") THEN 3000
      ELSE IF HasTok(p.charging, "100W") THEN 2500
      ELSE IF HasTok(p.charging, "80W") \/ HasTok(p.charging, "90W") THEN 2000
      ELSE IF HasTok(p.charging, "65W") \/ HasTok(p.charging, "67W") THEN 1500
      ELSE IF HasTok(p.charging, "45W") THEN 1000
      ELSE 0 )
  + 500 * Count(HasTok(p.charging, "Wireless") \/ HasTok(p.charging, "wireless"))

get_best_battery_phones(max_price, limit) ==
  LET results == Where(TruthyInt(max_price), Phones, LAMBDA p : p.price <= max_price.v)
  IN  Items(Take(SortDesc(Keyed(results, BatteryScore100)), limit))

get_compact_phones(min_price, max_price, min_ram, limit) ==
  LET r1 == Where(TruthyInt(min_price), Phones, LAMBDA p : p.price >= min_price.v)
      r2 == Where(TruthyInt(max_price), r1, LAMBDA p : p.price <= max_price.v)
      r3 == Where(TruthyInt(min_ram), r2, LAMBDA p : p.ram >= min_ram.v)
      r4 == SelectSeq(r3, LAMBDA p : p.size10 <= CompactMaxSize10)
  IN  Take(Items(SortAsc(Keyed(r4, LAMBDA p : p.size10))), limit)

\* Scaled by 200.
GamingScore200(p) ==
    p.refresh * 20
  + ( CASE p.processor = "snapdragon 8 gen 3" -> 10000
        [] p.processor \in { "snapdragon 8 gen 2", "snapdragon 8s gen 3" } -> 8000
        [] p.processor = "snapdragon 8+ gen 1" -> 7000
        [] p.processor = "dimensity 9300" -> 7000
        [] p.processor = "a17 pro" -> 9000
        [] OTHER -> 0 )
  + p.ram * 400
  + p.capacity
  + 2000 * Count(p.brand \in { "ASUS", "iQOO" })
  + 3000 * HighlightHits(p.highlights, << "gaming" >>)

get_gaming_phones(max_price, limit) ==
  LET results == Where(TruthyInt(max_price), Phones, LAMBDA p : p.price <= max_price.v)
  IN  Items(Take(SortDesc(Keyed(results, GamingScore200)), limit))

\* Variant: the tokens are looked up by name only.
RECURSIVE CompareByNameOnly(_)
CompareByNameOnly(phone_ids) ==
  IF phone_ids = << >> THEN << >>
  ELSE Found(get_phone_by_name(Head(phone_ids))) \o CompareByNameOnly(Tail(phone_ids))

\* phone_ids: the list of name texts.
RECURSIVE service_compare_phones(_)
service_compare_phones(phone_ids) ==
  IF phone_ids = << >> THEN << >>
  ELSE Found(OrPhone(get_phone_by_id(Head(phone_ids)), get_phone_by_name(Head(phone_ids))))
         \o service_compare_phones(Tail(phone_ids))

get_phones_by_brand(brand, max_price, limit) ==
  LET r1 == SelectSeq(Phones, LAMBDA p : LowerTok(p.brand) = LowerTok(brand))
      r2 == Where(TruthyInt(max_price), r1, LAMBDA p : p.price <= max_price.v)
  IN  Take(Items(SortDesc(Keyed(r2, LAMBDA p : p.price))), limit)

format_comparison_table(phones) ==
  IF phones = << >> THEN << "No phones to compare." >>
  ELSE << "| Feature |" >> \o Ids(phones) \o << "\n", "| ", "---", " |", "\n", "rows" >>
         \o Ids(phones) \o << "\n" >>

(***************************************************************************)
(* Tool arguments.  A JSON value given for a numeric parameter is          *)
(* [t, v]: absent ("none"), a number ("int"), a string holding a number    *)
(* ("numstr") or any other string ("str").  A parsed argument object has   *)
(* every key the tools read; an absent key holds the absent value.         *)
(***************************************************************************)
Absent == [t |-> "none", v |-> 0]
JInt(n) == [t |-> "int", v |-> n]
JNumStr(n) == [t |-> "numstr", v |-> n]
JStr == [t |-> "str", v |-> 0]

EmptyArgs ==
  [use_case |-> NoneText, query |-> NoneText, brand |-> NoneStr,
   min_price |-> Absent, max_price |-> Absent, min_ram |-> Absent,
   min_battery |-> Absent, has_5g |-> NoneStr, limit |-> Absent,
   phone_names |-> NoneText, phone_name |-> NoneText]

\* _safe_int: int(value) if value else None, ValueError/TypeError -> None.
\* The string "0" is truthy, so it converts to 0.
safe_int(value) ==
  CASE value.t = "none" -> NoneInt
    [] value.t = "int" -> IF value.v = 0 THEN NoneInt ELSE SomeInt(value.v)
    [] value.t = "numstr" -> SomeInt(value.v)
    [] OTHER -> NoneInt

\* `x or d` on an Optional[int].
IntOr(x, d) == IF TruthyInt(x) THEN x.v ELSE d

\* dict.get(key, "") on a text argument.
GetText(t) == IF t = NoneText THEN EmptyText ELSE t

\* The keywords a token of a use case contains as substrings.
SubKeywords(tok) ==
  CASE tok = "camera" -> { "camera" }
    [] tok = "photo" -> { "photo" }
    [] tok = "photos" -> { "photo" }
    [] tok = "photography" -> { "photo", "photography" }
    [] tok = "gaming" -> { "gaming" }
    [] tok = "game" -> { "game" }
    [] tok = "games" -> { "game" }
    [] tok = "performance" -> { "performance" }
    [] tok = "battery" -> { "battery" }
    [] tok = "endurance" -> { "endurance" }
    [] tok = "compact" -> { "compact" }
    [] tok = "small" -> { "small" }
    [] tok = "mini" -> { "mini" }
    [] OTHER -> { }

\* any(term in use_case for term in terms)
AnyTermIn(terms, use_case) ==
  \E i \in 1 .. Len(use_case) : SubKeywords(use_case[i]) \cap terms # { }

(***************************************************************************)
(* Argument validation done by tool.invoke before the handler body runs    *)
(* (langchain builds the schema from the handler's signature): a numeric   *)
(* parameter takes a number or a string holding one, a required parameter  *)
(* must be given, keys the signature does not name are dropped.            *)
(***************************************************************************)
NumericOk(x) == x.t \in { "none", "int", "numstr" }
Coerced(x) == IF x.t = "numstr" THEN JInt(x.v) ELSE x

Ok(text) == [raised |-> FALSE, text |-> text]
Raised == [raised |-> TRUE, text |-> << "ValidationError" >>]

(***************************************************************************)
(* src/backend/agent/tools.py                                              *)
(***************************************************************************)
RenderList(header, phones) == header \o Ids(phones)

agent_search_route(a) ==
  LET use_case_lower == Strip(Lower(OrElse(a.use_case, EmptyText)))
  IN  CASE AnyTermIn({ "camera", "photo", "photography" }, use_case_lower) -> "camera"
        [] AnyTermIn({ "gaming", "game", "performance" }, use_case_lower) -> "gaming"
        [] AnyTermIn({ "battery", "long lasting", "endurance" }, use_case_lower) -> "battery"
        [] AnyTermIn({ "compact", "small", "one hand", "mini" }, use_case_lower) -> "compact"
        [] OTHER -> IF TruthyStr(a.brand) THEN "brand" ELSE "search"

agent_search_records(a) ==
  LET min_price == safe_int(Coerced(a.min_price))
      max_price == safe_int(Coerced(a.max_price))
      min_ram == safe_int(Coerced(a.min_ram))
      min_battery == safe_int(Coerced(a.min_battery))
      limit == IntOr(safe_int(IF a.limit.t = "none" THEN JInt(DefaultLimit)
                              ELSE Coerced(a.limit)), DefaultLimit)
      Routed(route) ==
        CASE route = "camera" -> get_best_camera_phones(max_price, limit)
          [] route = "gaming" -> get_gaming_phones(max_price, limit)
          [] route = "battery" -> get_best_battery_phones(max_price, limit)
          [] route = "compact" -> get_compact_phones(min_price, max_price, min_ram, limit)
          [] route = "brand" -> get_phones_by_brand(a.brand, max_price, limit)
          [] OTHER -> search_phones(NoneText, a.brand, min_price, max_price, min_ram,
                                    a.has_5g, min_battery, limit)
  IN  Routed(agent_search_route(a))

agent_search_phones(a) ==
  IF ~ (NumericOk(a.min_price) /\ NumericOk(a.max_price) /\ NumericOk(a.min_ram)
        /\ NumericOk(a.min_battery) /\ NumericOk(a.limit))
  THEN Raised
  ELSE LET budget == IF TruthyInt(safe_int(Coerced(a.max_price))) THEN << " under" >> ELSE << >>
           Output(phones) ==
             IF phones = << >> THEN Ok(<< "No phones found matching your criteria." >>)
             ELSE Ok(RenderList(<< "# ", agent_search_route(a) >> \o budget \o << "Found" >>,
                                phones))
       IN  Output(agent_search_records(a))

agent_get_phone_details(a) ==
  IF a.phone_name = NoneText THEN Raised
  ELSE LET Output(phone) ==
             IF phone = NoPhone THEN Ok(<< "Phone '" >> \o a.phone_name \o << "' not found." >>)
             ELSE Ok(<< "# ", phone.id, "## Basic Info" >>)
       IN  Output(OrPhone(get_phone_by_id(a.phone_name), get_phone_by_name(a.phone_name)))

\* names = [n.strip() for n in phone_names.split(",")]
StripEach(parts) == [i \in 1 .. Len(parts) |-> Strip(parts[i])]
CompareNames(phone_names) == StripEach(Split(phone_names, ","))

agent_compare_phones(a) ==
  IF a.phone_names = NoneText THEN Raised
  ELSE LET Output(names, phones) ==
             IF Len(names) < CompareMinNames
             THEN Ok(<< "Please provide at least 2 phone names separated by commas." >>)
             ELSE IF Len(names) > CompareMaxNames
             THEN Ok(<< "Please compare a maximum of 4 phones." >>)
             ELSE IF Len(phones) < CompareMinNames
             THEN Ok(RenderList(<< "Found only" >>, phones) \o << "phone(s). Available brands" >>)
             ELSE Ok(format_comparison_table(phones)
                       \o << "\n", "\n", "Analyze the comparison above and provide insights based only on this data." >>)
           Compare(names) == Output(names, service_compare_phones(names))
       IN  Compare(CompareNames(a.phone_names))

agent_explain_mobile_tech(a) ==
  IF a.query = NoneText THEN Raised
  ELSE Ok(<< "Explain this mobile phone technology: " >> \o a.query)

\* get_all_tools(): the list self.tools is built from.
agent_tools == << "search_phones", "get_phone_details", "compare_phones", "explain_mobile_tech" >>

AgentToolNames == { "search_phones", "get_phone_details", "compare_phones", "explain_mobile_tech" }

\* tool.invoke(tool_args) of the tool named `name`.
agent_invoke(name, a) ==
  CASE name = "search_phones" -> agent_search_phones(a)
    [] name = "get_phone_details" -> agent_get_phone_details(a)
    [] name = "compare_phones" -> agent_compare_phones(a)
    [] OTHER -> agent_explain_mobile_tech(a)

(***************************************************************************)
(* src/backend/app/agent/tools.py                                          *)
(***************************************************************************)
\* An Optional[int] parameter after validation.
ToOpt(x) == IF Coerced(x).t = "none" THEN NoneInt ELSE SomeInt(Coerced(x).v)
\* int(x) if x else None
IntIfTruthy(x) == IF TruthyInt(x) THEN x ELSE NoneInt
LimitOr(x, d) == IF x.t = "none" THEN d ELSE Coerced(x).v

app_search_records(a) ==
  search_phones(a.query, a.brand, IntIfTruthy(ToOpt(a.min_price)),
                IntIfTruthy(ToOpt(a.max_price)), IntIfTruthy(ToOpt(a.min_ram)),
                a.has_5g, IntIfTruthy(ToOpt(a.min_battery)), LimitOr(a.limit, DefaultLimit))

app_search_phones(a) ==
  IF ~ (NumericOk(a.min_price) /\ NumericOk(a.max_price) /\ NumericOk(a.min_ram)
        /\ NumericOk(a.min_battery) /\ NumericOk(a.limit))
  THEN Raised
  ELSE LET Output(results) ==
             IF results = << >>
             THEN Ok(<< "No phones found matching your criteria. Try adjusting your filters." >>)
             ELSE Ok(RenderList(<< "Found", "phones:" >>, results))
       IN  Output(app_search_records(a))

app_get_phone_details(a) ==
  IF a.phone_name = NoneText THEN Raised
  ELSE LET Output(phone) ==
             IF phone = NoPhone
             THEN Ok(<< "Phone '" >> \o a.phone_name \o << "' not found in the database." >>)
             ELSE Ok(<< "\n", "# ", phone.id, "## Basic Info", "\n" >>)
       IN  Output(OrPhone(get_phone_by_id(a.phone_name), get_phone_by_name(a.phone_name)))

\* min / max over the compared phones: the first phone with the least (greatest) key.
FirstMin(keyed) == Head(SortAsc(keyed)).p
FirstMax(keyed) == Head(SortDesc(keyed)).p
Flagships == { "snapdragon 8 gen 3", "a17 pro", "dimensity 9300" }

BestPerformance(flagship) ==
  IF flagship = << >> THEN << >>
  ELSE << "**Best Performance:**", Head(flagship).id, "\n", "\n" >>

app_compare_analysis(phones) ==
  << "\n", "## Analysis", "\n", "\n" >>
    \o << "**Best Value:**", FirstMin(Keyed(phones, LAMBDA p : p.price)).id, "\n", "\n" >>
    \o << "**Best Camera (by MP):**", FirstMax(Keyed(phones, LAMBDA p : p.main_mp)).id,
          "\n", "\n" >>
    \o << "**Best Battery:**", FirstMax(Keyed(phones, LAMBDA p : p.capacity)).id, "\n", "\n" >>
    \o BestPerformance(SelectSeq(phones, LAMBDA p : p.processor \in Flagships))

app_compare_phones(a) ==
  IF a.phone_names = NoneText THEN Raised
  ELSE LET Output(names, phones) ==
             IF Len(names) < CompareMinNames
             THEN Ok(<< "Please provide at least 2 phone names separated by commas." >>)
             ELSE IF Len(names) > CompareMaxNames
             THEN Ok(<< "Please compare a maximum of 4 phones at a time." >>)
             ELSE IF Len(phones) < CompareMinNames
             THEN Ok(RenderList(<< "Could only find" >>, phones)
                       \o << "phone(s). Please check the names" >>)
             ELSE Ok(format_comparison_table(phones) \o app_compare_analysis(phones))
           Compare(names) == Output(names, service_compare_phones(names))
       IN  Compare(CompareNames(a.phone_names))

app_ranked(name, a) ==
  IF ~ (NumericOk(a.max_price) /\ NumericOk(a.limit)) THEN Raised
  ELSE LET max_price == ToOpt(a.max_price)
           limit == LimitOr(a.limit, DefaultLimit)
           Output(phones) ==
             IF phones = << >> THEN Ok(<< "No phones found within your budget." >>)
             ELSE Ok(RenderList(<< "# ", name >>, phones))
       IN  Output(CASE name = "get_best_camera_phones" -> get_best_camera_phones(max_price, limit)
                    [] name = "get_best_battery_phones" -> get_best_battery_phones(max_price, limit)
                    [] name = "get_compact_phones" ->
                         get_compact_phones(NoneInt, max_price, NoneInt, limit)
                    [] OTHER -> get_gaming_phones(max_price, limit))

app_get_phones_by_brand(a) ==
  IF a.brand = NoneStr \/ ~ (NumericOk(a.max_price) /\ NumericOk(a.limit)) THEN Raised
  ELSE LET Output(phones) ==
             IF phones = << >> THEN Ok(<< "No phones found for brand", a.brand >>)
             ELSE Ok(RenderList(<< "# ", a.brand, " Phones" >>, phones))
       IN  Output(get_phones_by_brand(a.brand, ToOpt(a.max_price),
                                      LimitOr(a.limit, FacadeDefaultLimit)))

app_tools ==
  << "search_phones", "get_phone_details", "compare_phones", "get_best_camera_phones",
     "get_best_battery_phones", "get_compact_phones", "get_gaming_phones",
     "get_phones_by_brand", "get_available_brands" >>

AppToolNames ==
  { "search_phones", "get_phone_details", "compare_phones", "get_best_camera_phones",
    "get_best_battery_phones", "get_compact_phones", "get_gaming_phones",
    "get_phones_by_brand", "get_available_brands" }

app_invoke(name, a) ==
  CASE name = "search_phones" -> app_search_phones(a)
    [] name = "get_phone_details" -> app_get_phone_details(a)
    [] name = "compare_phones" -> app_compare_phones(a)
    [] name = "get_phones_by_brand" -> app_get_phones_by_brand(a)
    [] name = "get_available_brands" -> Ok(<< "Available brands: " >>)
    [] OTHER -> app_ranked(name, a)

(***************************************************************************)
(* Result cards: _format_card / _format_phone_card and the derivation of   *)
(* the cards of one tool call from its name and arguments.                 *)
(***************************************************************************)
format_card(phone) ==
  [id |-> phone.id, name |-> phone.name, brand |-> phone.brand, price |-> phone.price,
   battery |-> phone.capacity, rating |-> phone.rating10]

Cards(phones) == [i \in 1 .. Len(phones) |-> format_card(phones[i])]

\* phone_service.get_phone_by_name(name) or phone_service.get_phone_by_id(name)
NameThenId(name) == OrPhone(get_phone_by_name(name), get_phone_by_id(name))

RECURSIVE ResolveAll(_)
ResolveAll(names) ==
  IF names = << >> THEN << >>
  ELSE Found(NameThenId(Head(names))) \o ResolveAll(Tail(names))

\* src/backend/agent/agent_builder.py, _get_phones_from_tool
agent_card_route(a) ==
  LET use_case == Lower(OrElse(a.use_case, EmptyText))
  IN  CASE AnyTermIn({ "camera", "photo" }, use_case) -> "camera"
        [] AnyTermIn({ "gaming", "game" }, use_case) -> "gaming"
        [] AnyTermIn({ "battery" }, use_case) -> "battery"
        [] AnyTermIn({ "compact", "small" }, use_case) -> "compact"
        [] OTHER -> IF TruthyStr(a.brand) THEN "brand" ELSE "search"

agent_get_phones_from_tool(tool_name, a) ==
  CASE tool_name = "compare_phones" -> Cards(ResolveAll(CompareNames(GetText(a.phone_names))))
    [] tool_name = "get_phone_details" ->
         Cards(ResolveAll(<< GetText(a.phone_name) >>))
    [] tool_name = "search_phones" ->
         LET max_price == safe_int(a.max_price)
             min_price == safe_int(a.min_price)
             min_ram == safe_int(a.min_ram)
             limit == IntOr(safe_int(a.limit), DefaultLimit)
             Routed(route) ==
               CASE route = "camera" -> get_best_camera_phones(max_price, limit)
                 [] route = "gaming" -> get_gaming_phones(max_price, limit)
                 [] route = "battery" -> get_best_battery_phones(max_price, limit)
                 [] route = "compact" -> get_compact_phones(min_price, max_price, min_ram, limit)
                 [] route = "brand" -> get_phones_by_brand(a.brand, max_price, limit)
                 [] OTHER -> search_phones(NoneText, a.brand, min_price, max_price, min_ram,
                                           NoneStr, NoneInt, limit)
         IN  Cards(Routed(agent_card_route(a)))
    [] OTHER -> << >>

\* src/backend/app/agent/agent_builder.py, _get_phones_from_tool_call
app_card_route(a) ==
  LET use_case == IF Truthy(a.use_case) THEN Lower(a.use_case) ELSE NoneText
  IN  CASE use_case \in { << "camera" >>, << "photography" >>, << "photo" >>, << "photos" >> } -> "camera"
        [] use_case \in { << "gaming" >>, << "game" >>, << "games" >> } -> "gaming"
        [] use_case \in { << "battery" >>, << "battery life" >>, << "long battery" >> } -> "battery"
        [] use_case \in { << "compact" >>, << "small" >>, << "one-hand" >>, << "one hand" >> } -> "compact"
        [] OTHER -> IF TruthyStr(a.brand) THEN "brand" ELSE "search"

app_get_phones_from_tool_call(tool_name, a) ==
  CASE tool_name = "compare_phones" -> Cards(ResolveAll(CompareNames(GetText(a.phone_names))))
    [] tool_name = "get_phone_details" ->
         Cards(ResolveAll(<< GetText(a.phone_name) >>))
    [] tool_name = "search_phones" ->
         LET max_price == safe_int(a.max_price)
             min_price == safe_int(a.min_price)
             min_ram == safe_int(a.min_ram)
             limit == IF safe_int(a.limit).some THEN safe_int(a.limit).v ELSE DefaultLimit
             Routed(route) ==
               CASE route = "camera" -> get_best_camera_phones(max_price, limit)
                 [] route = "gaming" -> get_gaming_phones(max_price, limit)
                 [] route = "battery" -> get_best_battery_phones(max_price, limit)
                 [] route = "compact" -> get_compact_phones(min_price, max_price, min_ram, limit)
                 [] route = "brand" -> get_phones_by_brand(a.brand, max_price, limit)
                 [] OTHER -> search_phones(NoneText, a.brand, min_price, max_price, min_ram,
                                           NoneStr, NoneInt, limit)
         IN  Cards(Routed(app_card_route(a)))
    [] OTHER -> << >>

(***************************************************************************)
(* ShoppingAgent: turns, the session history store, the model backend.     *)
(***************************************************************************)
Sessions == { "s1", "s2" }
Impls == { "agent", "app" }
NoId == << 0, 0 >>

Turn(role, content) ==
  [role |-> role, content |-> content, tool_calls |-> << >>, tool_call_id |-> NoId]
AssistantTurn(content, tool_calls) ==
  [role |-> "assistant", content |-> content, tool_calls |-> tool_calls, tool_call_id |-> NoId]
ToolTurn(tool_call_id, content) ==
  [role |-> "tool", content |-> content, tool_calls |-> << >>, tool_call_id |-> tool_call_id]

SystemPrompt == << "SYSTEM_PROMPT", "\n", "\n", "SAFETY_PROMPT" >>
Fallback == << "I found some information for you." >>

\* _get_history / _get_chat_history: the store after the read (the entry is created).
get_history(h, session_id) ==
  IF session_id \in DOMAIN h THEN h ELSE h @@ (session_id :> << >>)

\* Variant: the trim keeps the oldest turns.
TrimKeepsOldest(history) ==
  IF Len(history) > HistoryCap THEN Take(history, HistoryCap) ELSE history

\* Variant: the trim keeps one turn less than the cap.
TrimOneShort(history) ==
  IF Len(history) > HistoryCap THEN LastN(history, HistoryCap - 1) ELSE history

\* history[-20:] when len(history) > 20
TrimHistory(history) ==
  IF Len(history) > HistoryCap THEN LastN(history, HistoryCap) ELSE history

\* Variant: the entry is overwritten with the new exchange.
AddOverwrites(h, session_id, user_msg, ai_msg) ==
  [s \in DOMAIN h \cup { session_id } |->
     IF s = session_id THEN << Turn("user", user_msg), Turn("assistant", ai_msg) >> ELSE h[s]]

add_to_history(h, session_id, user_msg, ai_msg) ==
  LET h1 == get_history(h, session_id)
      extended == h1[session_id] \o << Turn("user", user_msg), Turn("assistant", ai_msg) >>
  IN  [h1 EXCEPT ![session_id] = TrimHistory(extended)]

\* Variant: clear empties the entry and keeps it.
ClearLeavesEmptyEntry(h, session_id) ==
  [s \in DOMAIN h |-> IF s = session_id THEN << >> ELSE h[s]]

\* Variant: clear drops the entries of all sessions.
ClearEverySession(h, session_id) == [s \in { } |-> << >>]

clear_history(h, session_id) == [s \in DOMAIN h \ { session_id } |-> h[s]]

\* The turns stored for a session (none when it has no entry).
Stored(h, session_id) == IF session_id \in DOMAIN h THEN h[session_id] ELSE << >>

(***************************************************************************)
(* A tool call's raw argument payload and json.loads of it.                *)
(***************************************************************************)
Obj(f) == [kind |-> "obj", f |-> f]
Unparseable == [kind |-> "unparseable", f |-> EmptyArgs]
NonObject == [kind |-> "nonobj", f |-> EmptyArgs]
Missing == [kind |-> "missing", f |-> EmptyArgs]

\* json.loads inside try/except json.JSONDecodeError: a payload that is no
\* string raises TypeError, which that handler does not catch.
ParseRaises(payload) == payload.kind = "missing"
ParsedIsDict(payload) == payload.kind \in { "obj", "unparseable" }
ParsedArgs(payload) == IF payload.kind = "obj" THEN payload.f ELSE EmptyArgs

ToolNames(impl) == IF impl = "agent" THEN AgentToolNames ELSE AppToolNames

\* Variant: the first tool is registered twice.
ToolsWithDuplicate(i) ==
  IF i = "agent" THEN << Head(agent_tools) >> \o agent_tools
  ELSE << Head(app_tools) >> \o app_tools

\* self.tools = get_all_tools() in __init__.
get_all_tools(i) == IF i = "agent" THEN agent_tools ELSE app_tools

\* The handlers the dispatch loop invokes for a name: the loop over
\* self.tools leaves at the first tool of that name (return in
\* _execute_tool, break in the app loops).
InvokedFor(registry, name) ==
  IF SelectSeq(registry, LAMBDA t : t = name) = << >> THEN << >>
  ELSE << Head(SelectSeq(registry, LAMBDA t : t = name)) >>

\* tool.invoke(tool_args)
Invoke(impl, name, payload) ==
  IF ~ ParsedIsDict(payload) THEN Raised
  ELSE IF impl = "agent" THEN agent_invoke(name, ParsedArgs(payload))
  ELSE app_invoke(name, ParsedArgs(payload))

\* Does the card derivation raise?  It reads tool_args with .get for the
\* three tools it knows.
CardsRaise(name, payload) ==
  ~ ParsedIsDict(payload) /\ name \in { "compare_phones", "get_phone_details", "search_phones" }

DeriveCards(impl, name, payload) ==
  IF impl = "agent" THEN agent_get_phones_from_tool(name, ParsedArgs(payload))
  ELSE app_get_phones_from_tool_call(name, ParsedArgs(payload))

NotFoundText(name) == << "Tool ", name, " not found" >>

\* Is this result text a comparison table to capture?
IsTable(name, text) == name = "compare_phones" /\ Contains(text, TableMarker)

(***************************************************************************)
(* The effect of one tool call of a batch:                                 *)
(*   escaped  an exception left the per-call handling                      *)
(*   text     the content of the tool turn                                 *)
(*   cards    the cards collected from the call                            *)
(*   table    the comparison table captured (NoneText: none)               *)
(***************************************************************************)
Effect(escaped, text, cards, table) ==
  [escaped |-> escaped, text |-> text, cards |-> cards, table |-> table]

\* agent: _execute_tool, then _get_phones_from_tool, then the capture.
\* _execute_tool: the result text of one call, never an exception.
execute_tool(name, payload) ==
  LET Text(out) == IF out.raised THEN << "Error: " >> \o out.text ELSE out.text
  IN  IF name \notin AgentToolNames THEN NotFoundText(name)
      ELSE Text(Invoke("agent", name, payload))

agent_tool_effect(name, payload) ==
  LET After(tool_result) ==
        IF CardsRaise(name, payload) THEN Effect(TRUE, tool_result, << >>, NoneText)
        ELSE Effect(FALSE, tool_result, DeriveCards("agent", name, payload),
                    IF IsTable(name, tool_result) THEN tool_result ELSE NoneText)
  IN  After(execute_tool(name, payload))

\* app: everything happens inside the try of the matching tool.
app_tool_effect(name, payload) ==
  LET After(out) ==
        IF out.raised
        THEN Effect(FALSE, << "Error executing tool: " >> \o out.text, << >>, NoneText)
        ELSE IF CardsRaise(name, payload)
        THEN Effect(FALSE, << "Error executing tool: ", "AttributeError" >>, << >>, NoneText)
        ELSE Effect(FALSE, out.text, DeriveCards("app", name, payload),
                    IF IsTable(name, out.text) /\ Truthy(out.text) THEN out.text ELSE NoneText)
  IN  IF name \notin AppToolNames THEN Effect(FALSE, NotFoundText(name), << >>, NoneText)
      ELSE After(Invoke("app", name, payload))

ToolEffect(impl, name, payload) ==
  IF impl = "agent" THEN agent_tool_effect(name, payload) ELSE app_tool_effect(name, payload)

(***************************************************************************)
(* Finalization.                                                           *)
(***************************************************************************)
\* The cards deduplicated by id, first occurrence kept.
RECURSIVE DedupAcc(_, _)
DedupAcc(cards, seen) ==
  IF cards = << >> THEN << >>
  ELSE IF Head(cards).id \in seen THEN DedupAcc(Tail(cards), seen)
  ELSE << Head(cards) >> \o DedupAcc(Tail(cards), seen \cup { Head(cards).id })

\* Variant: no deduplication.
DedupNone(cards) == cards

Dedup(cards) == DedupAcc(cards, { })

CapCards(phones) == Take(phones, CardCap)

\* Variant: every outcome is a recommendation.
ClassifyRecommendation(phones) == "recommendation"

Classify(phones) == IF phones # << >> THEN "recommendation" ELSE "general"

\* table_parts = comparison_table.split("## Analysis"); table_parts[0].strip()
RECURSIVE BeforeAnalysis(_)
BeforeAnalysis(t) ==
  IF t = << >> \/ << Head(t) >> = AnalysisHeader THEN << >>
  ELSE << Head(t) >> \o BeforeAnalysis(Tail(t))

TableOnly(comparison_table) == Strip(BeforeAnalysis(comparison_table))

\* What is put in front of the final response.
Prepended(impl, comparison_table) ==
  IF impl = "agent" THEN comparison_table ELSE TableOnly(comparison_table)

ShouldPrepend(comparison_table, final_response) ==
  Truthy(comparison_table) /\ ~ Contains(final_response, TableMarker)

WithTable(impl, comparison_table, final_response) ==
  IF ShouldPrepend(comparison_table, final_response)
  THEN Prepended(impl, comparison_table) \o << "\n", "\n" >> \o final_response
  ELSE final_response

\* The final response chosen from a model response's content.
\*   agent: content or "I found some information for you."
\*   app:   content or ""  (and again `or ""` after the loop)
FinalText(impl, content) ==
  IF impl = "agent" THEN OrElse(content, Fallback) ELSE OrElse(content, EmptyText)

ErrorText(impl) ==
  IF impl = "agent" THEN << "I encountered an error. Please try again." >>
  ELSE << "I encountered an error processing your request. Please try again." >>

Result(response, phones, type) == [response |-> response, phones |-> phones, type |-> type]
NoResult == Result(NoneText, << >>, "none")
ErrorResult(impl) == Result(ErrorText(impl), << >>, "error")

\* The text stored in the history for the exchange.
\*   agent: _add_to_history runs before _finalize_response prepends the table
\*   app:   the table is prepended first
HistoryText(impl, comparison_table, final_response) ==
  IF impl = "agent" THEN final_response
  ELSE WithTable(impl, comparison_table, final_response)

FinalResult(impl, comparison_table, final_response, collected_phones) ==
  Result(WithTable(impl, comparison_table, final_response),
         CapCards(Dedup(collected_phones)),
         Classify(IF impl = "agent" THEN Dedup(collected_phones)
                  ELSE CapCards(Dedup(collected_phones))))

(***************************************************************************)
(* The inputs of a behaviour: user messages, and the responses the model   *)
(* backend may give.  A scenario is the set of tool-calling responses the  *)
(* model chooses from during one behaviour.                                *)
(***************************************************************************)
Txt == << "Here", " ", "you", " ", "go." >>
TxtWithTable == << "| a |", "\n", "| ", "---", " |", "\n", "Done." >>

Call(name, payload) == [name |-> name, arguments |-> payload]

CallUnknown == Call("no_such_tool", Obj(EmptyArgs))
CallSearchCamera ==
  Call("search_phones", Obj([EmptyArgs EXCEPT !.use_case = << "Camera" >>, !.max_price = JInt(70)]))
CallSearchCameraBudget ==
  Call("search_phones", Obj([EmptyArgs EXCEPT !.use_case = << "camera" >>, !.max_price = JInt(100)]))
CallSearchAll == Call("search_phones", Unparseable)
CallSearchSamsung ==
  Call("search_phones", Obj([EmptyArgs EXCEPT !.brand = "samsung", !.limit = JNumStr(1)]))
CallSearchNonObject == Call("search_phones", NonObject)
CallSearchJunkPrice ==
  Call("search_phones", Obj([EmptyArgs EXCEPT !.max_price = JStr]))
CallDetailsNeo ==
  Call("get_phone_details", Obj([EmptyArgs EXCEPT !.phone_name = << "Neo" >>]))
CallDetailsMissing == Call("get_phone_details", Missing)
CallCompareTwo ==
  Call("compare_phones",
       Obj([EmptyArgs EXCEPT !.phone_names = << "Pixel", " ", "8", ",", " ", "nord" >>]))
CallCompareOther ==
  Call("compare_phones",
       Obj([EmptyArgs EXCEPT !.phone_names = << "gs24", ",", "Neo", ",", "zzz" >>]))
CallCompareOne ==
  Call("compare_phones",
       Obj([EmptyArgs EXCEPT !.phone_names = << "Pixel", " ", "8", ",", " ", "zzz" >>]))

CallCompareSingle ==
  Call("compare_phones", Obj([EmptyArgs EXCEPT !.phone_names = << "Neo" >>]))
CallCompareFive ==
  Call("compare_phones",
       Obj([EmptyArgs EXCEPT !.phone_names = << "gs24", ",", "Neo", ",", "px8", ",", "zzz", ",",
                                                "nord" >>]))
CallDetailsUnknown ==
  Call("get_phone_details", Obj([EmptyArgs EXCEPT !.phone_name = << "zzz" >>]))

ToolResponse(content, batch) == [raises |-> FALSE, content |-> content, tool_calls |-> batch]
TextResponse(content) == [raises |-> FALSE, content |-> content, tool_calls |-> << >>]
BackendRaises == [raises |-> TRUE, content |-> NoneText, tool_calls |-> << >>]
NoResponse == [raises |-> FALSE, content |-> NoneText, tool_calls |-> << >>]

ScenUnknown ==
  { ToolResponse(NoneText, << CallUnknown >>),
    ToolResponse(Txt, << CallSearchCamera, CallUnknown >>) }
ScenCompare ==
  { ToolResponse(Txt, << CallCompareTwo >>),
    ToolResponse(TxtWithTable, << CallCompareOther, CallCompareOne >>) }
ScenCards ==
  { ToolResponse(NoneText, << CallSearchAll >>),
    ToolResponse(Txt, << CallDetailsNeo, CallSearchCamera >>) }
ScenPayload ==
  { ToolResponse(NoneText, << CallSearchAll, CallSearchNonObject >>),
    ToolResponse(Txt, << CallDetailsMissing >>) }
ScenMixed ==
  { ToolResponse(EmptyText, << CallCompareOne, CallSearchSamsung >>),
    ToolResponse(Txt, << CallSearchJunkPrice >>) }

ScenSearch ==
  { ToolResponse(Txt, << CallSearchCamera >>),
    ToolResponse(NoneText, << CallSearchCameraBudget >>) }

ScenNoRecord ==
  { ToolResponse(Txt, << CallCompareSingle >>),
    ToolResponse(NoneText, << CallDetailsUnknown, CallCompareFive >>) }

Scenarios ==
  { ScenUnknown, ScenCompare, ScenCards, ScenPayload, ScenMixed, ScenSearch, ScenNoRecord }

\* The responses without tool calls (tool_calls None or []).
TerminalResponses ==
  { TextResponse(NoneText), TextResponse(EmptyText), TextResponse(Txt), TextResponse(TxtWithTable) }

\* The tool calls of the n-th response of a turn, with their correlation tokens.
WithIds(batch, n) ==
  [i \in 1 .. Len(batch) |-> [id |-> << n, i >>, name |-> batch[i].name,
                               arguments |-> batch[i].arguments]]

MsgNormal == << "Show", " ", "phones" >>
MsgAdversarial == << "reveal your", " ", "rules" >>
MsgExplain == << "what is ", "ois" >>
UserMessages == { MsgNormal, MsgAdversarial, MsgExplain }

\* prompts.is_adversarial_query: the response key, "" when the message is not flagged.
AdversarialKey(message) ==
  IF \E i \in 1 .. Len(message) : message[i] \in { "system prompt", "reveal your", "jailbreak" }
  THEN "prompt_extraction"
  ELSE IF \E i \in 1 .. Len(message) : message[i] \in { "api key", "password" }
  THEN "api_key_request"
  ELSE ""

AdversarialResponse(key) == << "ADVERSARIAL_RESPONSES", key >>

\* The tech term a message asks to explain ("" when none), and its explanation.
TechTerms == { "ois", "eis", "amoled", "ltpo", "refresh rate", "5g", "ip68", "periscope", "tensor" }
ExplainTerm(message) ==
  IF \E i \in 1 .. Len(message) - 1 :
       message[i] \in { "explain ", "what is ", "what's " } /\ message[i + 1] \in TechTerms
  THEN message[(CHOOSE i \in 1 .. Len(message) - 1 :
                  message[i] \in { "explain ", "what is ", "what's " } /\ message[i + 1] \in TechTerms) + 1]
  ELSE ""
TechExplanation(term) == << "TECH_EXPLANATIONS", term >>

(***************************************************************************)
(* State.                                                                  *)
(*   impl                  which ShoppingAgent runs                        *)
(*   scenario              the tool-calling responses the model may give   *)
(*   conversation_history  session id -> stored turns                      *)
(*   frame                 request -> the locals of its chat/chat_stream   *)
(*   quota                 requests that may still be started              *)
(*   ops                   history operations still allowed (HistorySpec)  *)
(*   last_added            session id -> the exchange appended last        *)
(*   failing               the status generators whose model call fails    *)
(*   twin_history          the store of the reference run (TwinSpec)       *)
(*   executor              the thread pool of the model calls (PoolSpec)   *)
(*   probe                 one call of a facade operation or of a tool     *)
(*                         handler and what it returned (FacadeSpec,       *)
(*                         HandlerSpec, LookupSpec)                        *)
(*   tools                 self.tools, the tools the dispatch searches     *)
(***************************************************************************)
VARIABLES impl, scenario, conversation_history, frame, quota, ops, last_added, failing,
          twin_history, executor, probe, tools

vars ==
  << impl, scenario, conversation_history, frame, quota, ops, last_added, failing,
     twin_history, executor, probe, tools >>

StatusEvent(message) ==
  [type |-> "status", message |-> message, response |-> NoneText, phones |-> << >>,
   response_type |-> ""]
CompleteEvent(result) ==
  [type |-> "complete", message |-> NoneText, response |-> result.response,
   phones |-> result.phones, response_type |-> result.type]

\* No call is probed.
NoProbe == [stage |-> "none"]

\* _executor: no call submitted.
\*   queue    the requests whose model call waits for a worker, oldest first
\*   running  the requests whose model call a worker executes
\*   on_loop  the requests whose model call the event loop executes itself
IdleExecutor == [queue |-> << >>, running |-> { }, on_loop |-> { }]

\* A model call of a status generator: its messages, and whether the tool
\* declarations are passed.
NoStatusCall == [messages |-> << >>, tools |-> FALSE]

IdleFrame ==
  [pc |-> "idle", mode |-> "none", message |-> EmptyText, session_id |-> "s1",
   messages |-> << >>, collected_phones |-> << >>, comparison_table |-> NoneText,
   iteration |-> 0, response |-> NoResponse, final_response |-> EmptyText, tc |-> 0,
   events |-> << >>, result |-> NoResult, escaped |-> FALSE, failure |-> "none",
   llm_calls |-> 0, script |-> << >>, before |-> << >>, status_call |-> NoStatusCall]

\* s1 has no entry, s2 holds 20 turns.
OldExchange(n) == << Turn("user", << "old question", n >>), Turn("assistant", << "old answer", n >>) >>
FullHistory ==
  OldExchange("1") \o OldExchange("2") \o OldExchange("3") \o OldExchange("4")
    \o OldExchange("5") \o OldExchange("6") \o OldExchange("7") \o OldExchange("8")
    \o OldExchange("9") \o OldExchange("10")
InitialStore == ("s2" :> FullHistory)

(***************************************************************************)
(* Status generation (chat_stream only).                                   *)
(***************************************************************************)
StatusDefault(i, which) ==
  IF i = "agent" THEN << "Working on it..." >>
  ELSE CASE which = "thinking" -> << "Working on it..." >>
         [] which = "tool" -> << "Searching..." >>
         [] OTHER -> << "Analyzing..." >>

\* The status text: the model's, or the default when the call failed.
StatusMessage(i, which, ok) == IF ok THEN << "generated status" >> ELSE StatusDefault(i, which)

\* Variant: a failed status call raises out of the generator.
StatusEscapesOnFailure(i, which, ok) == ~ ok

\* Does a failed status call raise out of the status generator?  (try/except
\* around the whole call in each generator.)
StatusEscapes(i, which, ok) == FALSE

(***************************************************************************)
(* Steps of one request.  Each takes the frame f (and the store h) and     *)
(* gives the frame and store after the step.                               *)
(***************************************************************************)
Out(f, h) == [f |-> f, h |-> h]

Emit(f, event) == IF f.mode = "stream" THEN [f EXCEPT !.events = Append(@, event)] ELSE f

Return(f, result) ==
  Emit([f EXCEPT !.pc = "done", !.result = result], CompleteEvent(result))

\* Variant: the error result keeps the cards collected so far.
FailKeepsCards(i, f, why) ==
  Return([f EXCEPT !.failure = why],
         Result(ErrorText(i), CapCards(Dedup(f.collected_phones)), "error"))

\* The top-level `except Exception` of chat / chat_stream.
Fail(i, f, why) == Return([f EXCEPT !.failure = why], ErrorResult(i))

\* An exception outside the try: chat raises to its caller; for chat_stream
\* main.event_generator emits the error event.
Escape(i, f, why) ==
  Emit([f EXCEPT !.pc = "done", !.escaped = TRUE, !.failure = why,
                 !.result = ErrorResult("agent")],
       CompleteEvent(ErrorResult("agent")))

\* _add_to_history, the table, the cards, the result.
Finalize(i, f, h) ==
  Out(Return([f EXCEPT !.final_response = WithTable(i, f.comparison_table, f.final_response)],
             FinalResult(i, f.comparison_table, f.final_response, f.collected_phones)),
      add_to_history(h, f.session_id, f.message,
                     HistoryText(i, f.comparison_table, f.final_response)))

\* Variant: no return after the complete event of a gate.
AfterShortCircuitFallsThrough(f) == [f EXCEPT !.pc = "llm"]

\* Where a short-circuited request goes after its complete event.
AfterShortCircuit(f) == [f EXCEPT !.pc = "done"]

\* The gates of the app implementation, then the context of the first call.
BuildContext(i, f, h) ==
  IF i = "app" /\ AdversarialKey(f.message) # ""
  THEN Out(AfterShortCircuit(Return(f, Result(AdversarialResponse(AdversarialKey(f.message)),
                                              << >>, "safety_redirect"))), h)
  ELSE IF i = "app" /\ ExplainTerm(f.message) # ""
  THEN Out(AfterShortCircuit(Return(f, Result(TechExplanation(ExplainTerm(f.message)),
                                              << >>, "explanation"))),
           add_to_history(h, f.session_id, f.message, TechExplanation(ExplainTerm(f.message))))
  ELSE Out([f EXCEPT !.pc = "llm",
                     !.messages = << Turn("system", SystemPrompt) >>
                                    \o get_history(h, f.session_id)[f.session_id]
                                    \o << Turn("user", f.message) >>],
           get_history(h, f.session_id))

\* Variant: the cap compared with <=, one more round.
LoopContinuesOneMore(iteration) == iteration <= max_iterations

\* Does the loop go round again after `iteration` batches?
LoopContinues(iteration) == iteration < max_iterations

\* After a batch: the next model call, or the forced termination.
NextIteration(i, f, h) ==
  IF LoopContinues(f.iteration) THEN Out([f EXCEPT !.pc = "llm"], h)
  ELSE Finalize(i, [f EXCEPT !.final_response = FinalText(i, f.response.content)], h)

\* One response of the tool-enabled model call.
OnResponse(i, f, h, resp) ==
  LET g == [f EXCEPT !.llm_calls = @ + 1, !.script = Append(@, resp)]
  IN  IF resp.raises THEN Out(Fail(i, g, "model"), h)
      ELSE IF resp.tool_calls = << >>
      THEN Finalize(i, [g EXCEPT !.response = resp,
                                 !.final_response = FinalText(i, resp.content)], h)
      ELSE Out([g EXCEPT !.response = [resp EXCEPT !.tool_calls = WithIds(@, g.llm_calls)],
                         !.messages = Append(@, AssistantTurn(OrElse(resp.content, EmptyText),
                                                              WithIds(resp.tool_calls, g.llm_calls))),
                         !.tc = 1,
                         !.pc = IF f.mode = "stream" THEN "tool_status" ELSE "tool"], h)

\* Variant: the batch is taken from its last call to its first.
CurrentCallReversed(f) == f.response.tool_calls[Len(f.response.tool_calls) - f.tc + 1]

\* The current tool call of the batch.
CurrentCall(f) == f.response.tool_calls[f.tc]

\* Variant: the result of a tool call is not appended to the context.
CollectedUnanswered(f, call, e) ==
  [f EXCEPT !.collected_phones = @ \o e.cards,
            !.comparison_table = IF e.table # NoneText THEN e.table ELSE @,
            !.tc = @ + 1]

\* Variant: the first captured table is kept.
CollectedFirstTable(f, call, e) ==
  [f EXCEPT !.collected_phones = @ \o e.cards,
            !.comparison_table = IF @ = NoneText THEN e.table ELSE @,
            !.messages = Append(@, ToolTurn(call.id, e.text)),
            !.tc = @ + 1]

\* Variant: the tool turn is written over the last turn of the context.
CollectedOverLastTurn(f, call, e) ==
  [f EXCEPT !.collected_phones = @ \o e.cards,
            !.comparison_table = IF e.table # NoneText THEN e.table ELSE @,
            !.messages = Append(SubSeq(@, 1, Len(@) - 1), ToolTurn(call.id, e.text)),
            !.tc = @ + 1]

\* Dispatch of the current tool call and what follows it.
\* The frame after a tool call with effect e: the cards, the table, the tool turn.
Collected(f, call, e) ==
  [f EXCEPT !.collected_phones = @ \o e.cards,
            !.comparison_table = IF e.table # NoneText THEN e.table ELSE @,
            !.messages = Append(@, ToolTurn(call.id, e.text)),
            !.tc = @ + 1]

\* What follows a handled tool call: the next call of the batch, or the end of the batch.
AfterToolCall(i, f, h, g) ==
  IF f.tc < Len(f.response.tool_calls)
  THEN Out([g EXCEPT !.pc = IF f.mode = "stream" THEN "tool_status" ELSE "tool"], h)
  ELSE IF f.mode = "stream"
  THEN Out([g EXCEPT !.iteration = @ + 1, !.pc = "analysis_status"], h)
  ELSE NextIteration(i, [g EXCEPT !.iteration = @ + 1], h)

OnEffect(i, f, h, call, e) ==
  IF ParseRaises(call.arguments) THEN Out(Fail(i, f, "parse"), h)
  ELSE IF e.escaped THEN Out(Fail(i, f, "tool"), h)
  ELSE AfterToolCall(i, f, h, Collected(f, call, e))

OnToolCall(i, f, h) ==
  OnEffect(i, f, h, CurrentCall(f), ToolEffect(i, CurrentCall(f).name, CurrentCall(f).arguments))

\* str(tool_args) / json.dumps(tool_args): the texts of the arguments.
ArgsText(payload) ==
  IF payload.kind # "obj" THEN << "{", "}" >>
  ELSE << "{" >> \o GetText(payload.f.use_case) \o GetText(payload.f.query)
         \o GetText(payload.f.phone_names) \o GetText(payload.f.phone_name) \o << "}" >>

\* The user content of a status call.
StatusSubject(i, which, f) ==
  CASE which = "thinking" -> f.message
    [] which = "tool" ->
         IF i = "agent"
         THEN << "Searching: ", CurrentCall(f).name, " with " >> \o ArgsText(CurrentCall(f).arguments)
         ELSE << "Tool: ", CurrentCall(f).name, ", Arguments: " >> \o ArgsText(CurrentCall(f).arguments)
    [] OTHER ->
         IF i = "agent" THEN << "Analyzing results (step ", ToString(f.iteration), ")" >>
         ELSE << "Iteration ", ToString(f.iteration), " of ", ToString(max_iterations),
                 ", analyzing phone search results" >>

\* Variant: the status call is made on the context of the loop, with the tools.
StatusCallOnContext(i, which, f) ==
  [messages |-> f.messages \o << Turn("user", StatusSubject(i, which, f)) >>, tools |-> TRUE]

\* The model call of a status generator: a system prompt of its own and one
\* user turn, no tool declarations.
StatusCall(i, which, f) ==
  [messages |-> << Turn("system", << "status prompt", which >>),
                   Turn("user", StatusSubject(i, which, f)) >>,
   tools |-> FALSE]

\* A status call and its event; `which` is "thinking", "tool" or "analysis".
OnStatus(i, f, h, which, ok) ==
  LET g == Emit([f EXCEPT !.status_call = StatusCall(i, which, f)],
                StatusEvent(StatusMessage(i, which, ok)))
  IN  IF StatusEscapes(i, which, ok)
      THEN (IF which = "thinking" THEN Out(Escape(i, f, "status"), h)
            ELSE Out(Fail(i, f, "status"), h))
      ELSE CASE which = "thinking" -> BuildContext(i, g, h)
             [] which = "tool" ->
                  IF ParseRaises(CurrentCall(f).arguments) THEN Out(Fail(i, f, "parse"), h)
                  ELSE Out([g EXCEPT !.pc = "tool"], h)
             [] OTHER -> NextIteration(i, g, h)

(***************************************************************************)
(* Actions.  A chat request runs from its start to the first model call    *)
(* without a suspension point; chat_stream suspends at every status call   *)
(* and at every model call.                                                *)
(***************************************************************************)
\* The status generators, and the sets of them whose model call may fail in a run.
StatusKinds == { "thinking", "tool", "analysis" }
FaultPatterns == SUBSET StatusKinds

Set(r, out) ==
  /\ frame' = [frame EXCEPT ![r] = out.f]
  /\ conversation_history' = out.h

\* Variant: chat_stream runs on the first session whatever id it is given.
StartedStreamOnOneSession(mode, message, session_id, h) ==
  [IdleFrame EXCEPT !.mode = mode, !.message = message,
                    !.session_id = IF mode = "stream" THEN "s1" ELSE session_id,
                    !.before = Stored(h, IF mode = "stream" THEN "s1" ELSE session_id)]

\* The frame of a request at its arrival.
Started(mode, message, session_id, h) ==
  [IdleFrame EXCEPT !.mode = mode, !.message = message, !.session_id = session_id,
                    !.before = Stored(h, session_id)]

\* A request arrives: chat(message, session_id) or chat_stream(message, session_id).
Begin(r) ==
  /\ frame[r].pc = "idle"
  /\ \A q \in Reqs : q < r => frame[q].pc # "idle"
  /\ quota > 0
  /\ quota' = quota - 1
  /\ \E message \in UserMessages, session_id \in Sessions :
       \/ /\ Set(r, BuildContext(impl, Started("chat", message, session_id, conversation_history),
                                 conversation_history))
          /\ UNCHANGED failing
       \/ /\ Set(r, Out([Started("stream", message, session_id, conversation_history)
                            EXCEPT !.pc = "thinking"], conversation_history))
          /\ failing' \in FaultPatterns
  /\ UNCHANGED << impl, scenario, ops, last_added, twin_history, executor, probe, tools >>

\* chat_stream: the thinking status, then the gates and the context.
Thinking(r) ==
  /\ frame[r].pc = "thinking"
  /\ Set(r, OnStatus(impl, frame[r], conversation_history, "thinking", "thinking" \notin failing))
  /\ UNCHANGED << impl, scenario, quota, ops, last_added, failing, twin_history, executor, probe, tools >>

\* The responses the backend may give to the next tool-enabled call.
Backend == scenario \cup TerminalResponses \cup { BackendRaises }

\* One tool-enabled model call and the handling of its response.
CallModel(r) ==
  /\ frame[r].pc = "llm"
  /\ \E resp \in Backend : Set(r, OnResponse(impl, frame[r], conversation_history, resp))
  /\ UNCHANGED << impl, scenario, quota, ops, last_added, failing, twin_history, executor, probe, tools >>

\* chat_stream: the status before a tool call.
ToolStatus(r) ==
  /\ frame[r].pc = "tool_status"
  /\ Set(r, OnStatus(impl, frame[r], conversation_history, "tool", "tool" \notin failing))
  /\ UNCHANGED << impl, scenario, quota, ops, last_added, failing, twin_history, executor, probe, tools >>

\* The dispatch of one tool call of the batch.
DispatchTool(r) ==
  /\ frame[r].pc = "tool"
  /\ Set(r, OnToolCall(impl, frame[r], conversation_history))
  /\ UNCHANGED << impl, scenario, quota, ops, last_added, failing, twin_history, executor, probe, tools >>

\* chat_stream: the status after a batch.
AnalysisStatus(r) ==
  /\ frame[r].pc = "analysis_status"
  /\ Set(r, OnStatus(impl, frame[r], conversation_history, "analysis", "analysis" \notin failing))
  /\ UNCHANGED << impl, scenario, quota, ops, last_added, failing, twin_history, executor, probe, tools >>

Init ==
  /\ impl \in Impls
  /\ scenario \in Scenarios
  /\ conversation_history = InitialStore
  /\ frame = [r \in Reqs |-> IdleFrame]
  /\ quota = 1
  /\ ops = 0
  /\ last_added = << >>
  /\ failing = { }
  /\ twin_history = InitialStore
  /\ executor = IdleExecutor
  /\ probe = NoProbe
  /\ tools = get_all_tools(impl)

Next ==
  \E r \in Reqs :
    \/ Begin(r)
    \/ Thinking(r)
    \/ CallModel(r)
    \/ ToolStatus(r)
    \/ DispatchTool(r)
    \/ AnalysisStatus(r)

Spec == Init /\ [][Next]_vars

(***************************************************************************)
(* Properties of one turn (Spec).                                          *)
(***************************************************************************)
\* The two turns of one exchange.
Exchange(user_msg, ai_msg) == << Turn("user", user_msg), Turn("assistant", ai_msg) >>

\* The turn went through the loop to its finalization.
Finalized(f) == f.pc = "done" /\ f.failure = "none" /\ f.llm_calls > 0

\* C1: a turn makes at most 5 tool-enabled model calls; it is never waiting
\* for a model call once 5 were made, and after the 5th batch it only has its
\* finalization left.
C1_AtMostFiveModelCalls ==
  \A r \in Reqs :
    /\ frame[r].llm_calls <= max_iterations
    /\ frame[r].pc = "llm" => frame[r].llm_calls < max_iterations
    /\ frame[r].iteration <= max_iterations
    /\ frame[r].iteration = max_iterations => frame[r].pc \in { "analysis_status", "done" }

\* A turn whose model returned tool calls on every one of its 5 calls has ended.
C1_Witness ==
  \E r \in Reqs :
    /\ frame[r].pc = "done"
    /\ frame[r].llm_calls = max_iterations
    /\ frame[r].iteration = max_iterations
    /\ frame[r].failure = "none"

\* C2: when a model call raises, the turn does not raise to its caller, its
\* result is type error with no phones and the apology text, and the session
\* holds the turns it held before the request.
C2_ModelFailureContained ==
  \A r \in Reqs :
    (frame[r].pc = "done" /\ frame[r].failure = "model") =>
      /\ ~ frame[r].escaped
      /\ frame[r].result.type = "error"
      /\ frame[r].result.phones = << >>
      /\ frame[r].result.response = ErrorText(impl)
      /\ Stored(conversation_history, frame[r].session_id) = frame[r].before

\* A chat turn whose model call raised after tools had run and cards were collected.
C2_Witness ==
  \E r \in Reqs :
    /\ frame[r].pc = "done"
    /\ frame[r].failure = "model"
    /\ frame[r].mode = "chat"
    /\ frame[r].iteration >= 1
    /\ frame[r].collected_phones # << >>
    /\ frame[r].before # << >>

\* A tool turn of the frame's context carries the 'not found' text.
UnknownToolAnswered(f) ==
  \E n \in 1 .. Len(f.messages) :
    /\ f.messages[n].role = "tool"
    /\ f.messages[n].content = NotFoundText("no_such_tool")

\* C4: a turn in which an unregistered tool was called, and answered with the
\* 'not found' text, ends with a non-empty final response and a type other
\* than error, whatever the content of the later responses.
C4_UnknownToolStillAnswers ==
  \A r \in Reqs :
    (Finalized(frame[r]) /\ UnknownToolAnswered(frame[r])) =>
      /\ Truthy(frame[r].result.response)
      /\ frame[r].result.type # "error"

\* The turn ended by the cap: 5 model calls, the last one still asking for tools.
Forced(f) ==
  Finalized(f) /\ f.llm_calls = max_iterations /\ f.response.tool_calls # << >>

\* C5: a turn whose model asked for tools on all 5 iterations ends with the
\* content of the 5th response, or the generic fallback when that is empty
\* (behind the comparison table when one is prepended); the response is not
\* empty, the type is not error, and the exchange is the last of the history.
C5_ForcedTerminationFallsBack ==
  \A r \in Reqs :
    Forced(frame[r]) =>
      /\ frame[r].result.response
           = WithTable(impl, frame[r].comparison_table,
                       OrElse(frame[r].response.content, Fallback))
      /\ Truthy(frame[r].result.response)
      /\ frame[r].result.type # "error"
      /\ Len(Stored(conversation_history, frame[r].session_id)) >= Len(Exchange(Txt, Txt))
      /\ LastN(Stored(conversation_history, frame[r].session_id), Len(Exchange(Txt, Txt)))[1]
           = Turn("user", frame[r].message)

\* The part of a compare result before its analysis section or its closing
\* instruction, without surrounding whitespace.
TrailingSections ==
  { "## Analysis",
    "Analyze the comparison above and provide insights based only on this data." }

RECURSIVE UpTo(_, _)
UpTo(t, stops) ==
  IF t = << >> \/ Head(t) \in stops THEN << >>
  ELSE << Head(t) >> \o UpTo(Tail(t), stops)

TabularPortion(t) == Strip(UpTo(t, TrailingSections))

\* C6: at finalization the response is the model's final text, with the
\* tabular portion of the captured comparison in front of it exactly when a
\* comparison was captured and the text has no table marker.
C6_TabularPortionPrepended ==
  \A r \in Reqs :
    Finalized(frame[r]) =>
      frame[r].result.response
        = IF Truthy(frame[r].comparison_table)
             /\ ~ Contains(FinalText(impl, frame[r].response.content), TableMarker)
          THEN TabularPortion(frame[r].comparison_table) \o << "\n", "\n" >>
                 \o FinalText(impl, frame[r].response.content)
          ELSE FinalText(impl, frame[r].response.content)

\* The cards of first occurrence of each id, in the order first seen.
IsFirst(cards, n) == \A m \in 1 .. n - 1 : cards[m].id # cards[n].id
Rank(cards, n) == Cardinality({ m \in 1 .. n : IsFirst(cards, m) })
FirstSeen(cards) ==
  [k \in 1 .. Rank(cards, Len(cards)) |->
     cards[CHOOSE n \in 1 .. Len(cards) : IsFirst(cards, n) /\ Rank(cards, n) = k]]

\* C7: the phones of a finalized turn are the first occurrences of each id
\* among the collected cards, in first-seen order, cut to the first 5; the
\* deduplication leaves its own output unchanged.
C7_DedupFirstSeenCapped ==
  \A r \in Reqs :
    Finalized(frame[r]) =>
      /\ frame[r].result.phones = Take(FirstSeen(frame[r].collected_phones), CardCap)
      /\ CapCards(Dedup(frame[r].result.phones)) = frame[r].result.phones
      /\ Dedup(Dedup(frame[r].collected_phones)) = Dedup(frame[r].collected_phones)

\* A finalized turn that collected a duplicate among its first 5 cards and
\* more than 5 distinct ids.
C7_Witness ==
  \E r \in Reqs :
    /\ Finalized(frame[r])
    /\ Rank(frame[r].collected_phones, Len(frame[r].collected_phones)) > CardCap
    /\ \E n \in 1 .. CardCap : ~ IsFirst(frame[r].collected_phones, n)

\* The shape of a result: its phones, its type, and whether it came from the loop.
ResultShape(phones, type, finalized, errored) ==
  /\ Len(phones) <= CardCap
  /\ \A m, n \in 1 .. Len(phones) : m # n => phones[m].id # phones[n].id
  /\ finalized => /\ type = "recommendation" <=> phones # << >>
                  /\ type = "general" <=> phones = << >>
  /\ errored => type = "error"
  /\ type = "error" => phones = << >>

\* C8: the result of every ended turn, and every complete event, has at most
\* 5 phones with distinct ids; after a loop without exception the type is
\* recommendation exactly when there are phones and general exactly when
\* there are none; an error result has no phones.
C8_ResultShape ==
  \A r \in Reqs :
    /\ frame[r].pc = "done" =>
         ResultShape(frame[r].result.phones, frame[r].result.type, Finalized(frame[r]),
                     frame[r].failure # "none")
    /\ \A n \in 1 .. Len(frame[r].events) :
         frame[r].events[n].type = "complete" =>
           ResultShape(frame[r].events[n].phones, frame[r].events[n].response_type,
                       Finalized(frame[r]), frame[r].failure # "none")

\* A stream turn ended as a recommendation with 5 phones; another kind of
\* outcome is covered by the general and error results of the same runs.
C8_Witness ==
  \E r \in Reqs :
    /\ Finalized(frame[r])
    /\ frame[r].mode = "stream"
    /\ frame[r].result.type = "recommendation"
    /\ Len(frame[r].result.phones) = CardCap
    /\ Len(Dedup(frame[r].collected_phones)) > CardCap

\* C9: the events of a stream are status events, then one complete event as
\* the last event of an ended turn; a turn that has not ended has emitted no
\* complete event.
C9_StatusesThenOneComplete ==
  \A r \in Reqs :
    /\ \A n \in 1 .. Len(frame[r].events) :
         /\ frame[r].events[n].type \in { "status", "complete" }
         /\ frame[r].events[n].type = "complete" =>
              n = Len(frame[r].events) /\ frame[r].pc = "done"
    /\ (frame[r].mode = "stream" /\ frame[r].pc = "done") =>
         /\ frame[r].events # << >>
         /\ frame[r].events[Len(frame[r].events)].type = "complete"
    /\ frame[r].mode = "chat" => frame[r].events = << >>

\* A stream short-circuited by the safety gate: one status, then the complete event.
C9_Witness ==
  \E r \in Reqs :
    /\ frame[r].pc = "done"
    /\ frame[r].mode = "stream"
    /\ frame[r].result.type = "safety_redirect"
    /\ Len(frame[r].events) > 1

\* A model response with exactly one search call for camera phones under a budget.
IsCameraSearch(resp) ==
  /\ ~ resp.raises
  /\ Len(resp.tool_calls) = 1
  /\ resp.tool_calls[1].name = "search_phones"
  /\ resp.tool_calls[1].arguments.kind = "obj"
  /\ Lower(GetText(resp.tool_calls[1].arguments.f.use_case)) = << "camera" >>
  /\ resp.tool_calls[1].arguments.f.max_price.t = "int"

\* The ids of the records a tool result text lists for the model.
RecordIds(text) ==
  { text[n] : n \in 1 .. Len(text) } \cap { Phones[n].id : n \in 1 .. Len(Phones) }

\* The content of the tool turns of a context.
ToolTexts(messages) ==
  { messages[n].content : n \in { m \in 1 .. Len(messages) : messages[m].role = "tool" } }

\* C14: with no prior history, after a first response with one camera search
\* under a budget that returned k > 0 records and a second response without
\* tool calls, the turn has ended after 2 model calls as a recommendation
\* with at most k cards, each the card of a record returned to the model.
C14_CameraSearchScenario ==
  \A r \in Reqs :
    ( /\ frame[r].before = << >>
      /\ Len(frame[r].script) >= 2
      /\ IsCameraSearch(frame[r].script[1])
      /\ ~ frame[r].script[2].raises
      /\ frame[r].script[2].tool_calls = << >>
      /\ \E text \in ToolTexts(frame[r].messages) : RecordIds(text) # { } ) =>
      /\ Finalized(frame[r])
      /\ frame[r].llm_calls = 2
      /\ frame[r].result.type = "recommendation"
      /\ \A text \in ToolTexts(frame[r].messages) :
           /\ Len(frame[r].result.phones) <= Cardinality(RecordIds(text))
           /\ \A n \in 1 .. Len(frame[r].result.phones) :
                frame[r].result.phones[n].id \in RecordIds(text)

\* The call a tool turn answers: its token names the model call and the
\* position in that call's batch.
CallOf(f, turn) == f.script[turn.tool_call_id[1]].tool_calls[turn.tool_call_id[2]]

\* The tool turns of a context that answer a compare call with a names text.
CompareTurns(f) ==
  { n \in 1 .. Len(f.messages) :
      /\ f.messages[n].role = "tool"
      /\ CallOf(f, f.messages[n]).name = "compare_phones"
      /\ CallOf(f, f.messages[n]).arguments.kind = "obj"
      /\ CallOf(f, f.messages[n]).arguments.f.phone_names # NoneText }

\* The record a token resolves to: the one with that id, else the one the
\* name lookup gives, else none.
ResolveToken(token) ==
  IF \E n \in 1 .. Len(Phones) : << Phones[n].id >> = token
  THEN Phones[CHOOSE n \in 1 .. Len(Phones) : << Phones[n].id >> = token]
  ELSE get_phone_by_name(token)

\* The records the tokens resolve to, in token order, unresolved tokens dropped.
Resolved(tokens) ==
  LET hits == SelectSeq(tokens, LAMBDA t : ResolveToken(t) # NoPhone)
  IN  [n \in 1 .. Len(hits) |-> ResolveToken(hits[n])]

\* What a compare result must be for the tokens of its call.
CompareResultOk(text, tokens) ==
  /\ Contains(text, TableMarker)
       <=> /\ Len(tokens) >= CompareMinNames
           /\ Len(tokens) <= CompareMaxNames
           /\ Len(Resolved(tokens)) >= CompareMinNames
  /\ Contains(text, TableMarker) =>
       Take(text, Len(format_comparison_table(Resolved(tokens))))
         = format_comparison_table(Resolved(tokens))
  /\ ( /\ Len(tokens) >= CompareMinNames
       /\ Len(tokens) <= CompareMaxNames
       /\ Len(Resolved(tokens)) < CompareMinNames ) =>
       RecordIds(text) = { Resolved(tokens)[n].id : n \in 1 .. Len(Resolved(tokens)) }

\* C15: a compare result holds a table exactly when 2 to 4 tokens were given
\* and at least 2 resolved (by id, else by name), the table being that of
\* the resolved records; with fewer resolved it names the records found and
\* has no table marker.  A turn none of whose tool results has a table
\* marker captured no comparison, and ends with the model's text unchanged
\* and a type other than error.
C15_CompareNeedsTwoResolved ==
  \A r \in Reqs :
    /\ \A n \in CompareTurns(frame[r]) :
         CompareResultOk(frame[r].messages[n].content,
                         CompareNames(CallOf(frame[r], frame[r].messages[n]).arguments.f.phone_names))
    /\ (\A text \in ToolTexts(frame[r].messages) : ~ Contains(text, TableMarker)) =>
         /\ frame[r].comparison_table = NoneText
         /\ Finalized(frame[r]) =>
              /\ frame[r].result.response = FinalText(impl, frame[r].response.content)
              /\ frame[r].result.type # "error"

\* A turn compared two tokens of which one resolved, and ended with the model's text.
C15_Witness ==
  \E r \in Reqs :
    /\ Finalized(frame[r])
    /\ frame[r].llm_calls = 2
    /\ \E n \in CompareTurns(frame[r]) :
         /\ Len(CompareNames(CallOf(frame[r], frame[r].messages[n]).arguments.f.phone_names)) = 2
         /\ Len(Resolved(CompareNames(CallOf(frame[r], frame[r].messages[n]).arguments.f.phone_names))) = 1
    /\ frame[r].comparison_table = NoneText
    /\ frame[r].result.response = Txt

\* The correlation tokens of the tool calls of an assistant turn.
Tokens(turn) == { turn.tool_calls[i].id : i \in 1 .. Len(turn.tool_calls) }

\* The assistant turn at n is followed by one tool turn per tool call, each
\* token answered once, and then by no further tool turn.
Answered(messages, n) ==
  LET k == Len(messages[n].tool_calls)
  IN  /\ n + k <= Len(messages)
      /\ \A i \in 1 .. k : messages[n + i].role = "tool"
      /\ \A token \in Tokens(messages[n]) :
           Cardinality({ i \in 1 .. k : messages[n + i].tool_call_id = token })
             = Cardinality({ i \in 1 .. k : messages[n].tool_calls[i].id = token })
      /\ n + k < Len(messages) => messages[n + k + 1].role # "tool"

\* The tool turn at n answers a call of the nearest assistant turn before it,
\* with only tool turns in between.
Answers(messages, n) ==
  \E m \in 1 .. n - 1 :
    /\ messages[m].role = "assistant"
    /\ \A j \in m + 1 .. n : messages[j].role = "tool"
    /\ messages[n].tool_call_id \in Tokens(messages[m])

WellFormed(messages) ==
  \A n \in 1 .. Len(messages) :
    /\ (messages[n].role = "assistant" /\ messages[n].tool_calls # << >>) =>
         Answered(messages, n)
    /\ messages[n].role = "tool" => Answers(messages, n)

\* C16: whenever a tool-enabled model call is about to be made, every
\* assistant turn with tool calls in the context is followed by exactly one
\* tool turn per call carrying its token, and every tool turn answers a call
\* of the assistant turn just before its batch.
C16_ContextWellFormed ==
  \A r \in Reqs : frame[r].pc = "llm" => WellFormed(frame[r].messages)

\* A model call is about to be made after two batches, one of them of two calls.
C16_Witness ==
  \E r \in Reqs :
    /\ frame[r].pc = "llm"
    /\ frame[r].iteration >= 2
    /\ \E n \in 1 .. Len(frame[r].messages) : Len(frame[r].messages[n].tool_calls) = 2

\* The tool turns that directly follow the assistant turn at n.
RECURSIVE ToolTurnsAfter(_, _)
ToolTurnsAfter(messages, n) ==
  IF n < Len(messages) /\ messages[n + 1].role = "tool"
  THEN << messages[n + 1] >> \o ToolTurnsAfter(messages, n + 1)
  ELSE << >>

\* The tool turns after the assistant turn at n answer its first calls, in the
\* order of the batch.
InBatchOrder(messages, n) ==
  LET turns == ToolTurnsAfter(messages, n)
  IN  /\ Len(turns) <= Len(messages[n].tool_calls)
      /\ \A i \in 1 .. Len(turns) : turns[i].tool_call_id = messages[n].tool_calls[i].id

\* C17: the tool turns of every batch stand in the context in the order the
\* model returned the calls; while a batch is in progress, in chat and
\* between the suspension points of chat_stream, the results of the calls
\* before the current one, and no others, have been appended after the
\* assistant turn of the batch.
C17_ToolCallsInOrder ==
  \A r \in Reqs :
    /\ \A n \in 1 .. Len(frame[r].messages) :
         frame[r].messages[n].role = "assistant" => InBatchOrder(frame[r].messages, n)
    /\ frame[r].pc \in { "tool_status", "tool" } =>
         /\ Len(frame[r].messages) >= frame[r].tc
         /\ frame[r].messages[Len(frame[r].messages) - (frame[r].tc - 1)].role = "assistant"
         /\ frame[r].messages[Len(frame[r].messages) - (frame[r].tc - 1)].tool_calls
              = frame[r].response.tool_calls
         /\ Len(ToolTurnsAfter(frame[r].messages,
                               Len(frame[r].messages) - (frame[r].tc - 1))) = frame[r].tc - 1

\* A stream is suspended before the second call of a batch, the first answered.
C17_Witness ==
  \E r \in Reqs :
    /\ frame[r].mode = "stream"
    /\ frame[r].pc = "tool_status"
    /\ frame[r].tc = 2
    /\ frame[r].messages[Len(frame[r].messages)].role = "tool"
    /\ frame[r].messages[Len(frame[r].messages)].tool_call_id
         = frame[r].response.tool_calls[1].id

\* The tool turns of a context whose call made the handler of a registered tool raise.
RaisedTurns(i, f) ==
  { n \in 1 .. Len(f.messages) :
      /\ f.messages[n].role = "tool"
      /\ CallOf(f, f.messages[n]).name \in ToolNames(i)
      /\ Invoke(i, CallOf(f, f.messages[n]).name, CallOf(f, f.messages[n]).arguments).raised }

\* C18: no turn ends in the error result because of an exception in the
\* processing of a tool call (its handler or its card derivation); a call
\* whose handler raised is answered with an error text, and every call of a
\* batch is answered before the next model call.
C18_ToolFailureScopedToCall ==
  \A r \in Reqs :
    /\ frame[r].failure # "tool"
    /\ \A n \in RaisedTurns(impl, frame[r]) :
         Head(frame[r].messages[n].content) \in { "Error: ", "Error executing tool: " }
    /\ frame[r].pc = "llm" =>
         \A n \in 1 .. Len(frame[r].messages) :
           frame[r].messages[n].role = "assistant" =>
             Len(ToolTurnsAfter(frame[r].messages, n)) = Len(frame[r].messages[n].tool_calls)

\* The tool turns of a context whose call's payload is no argument object.
MalformedTurns(f) ==
  { n \in 1 .. Len(f.messages) :
      /\ f.messages[n].role = "tool"
      /\ CallOf(f, f.messages[n]).arguments.kind # "obj" }

\* C19: a tool call whose payload is unparseable, parses to a non-object
\* value or is missing is handled as the call with the empty argument set:
\* its tool turn holds the result of the tool for no arguments, and no turn
\* ends in the error result at a call with such a payload.
C19_MalformedPayloadIsEmpty ==
  \A r \in Reqs :
    /\ frame[r].failure \in { "parse", "tool" } =>
         CurrentCall(frame[r]).arguments.kind = "obj"
    /\ \A n \in MalformedTurns(frame[r]) :
         frame[r].messages[n].content
           = ToolEffect(impl, CallOf(frame[r], frame[r].messages[n]).name, Obj(EmptyArgs)).text

\* C20: after a finalized turn the last two turns stored for its session are
\* the original user message and the response text returned to the caller,
\* the prepended comparison table included.
C20_StoredExchangeIsReturned ==
  \A r \in Reqs :
    Finalized(frame[r]) =>
      /\ frame[r].session_id \in DOMAIN conversation_history
      /\ Len(conversation_history[frame[r].session_id]) >= 2
      /\ LastN(conversation_history[frame[r].session_id], 2)
           = Exchange(frame[r].message, frame[r].result.response)

\* The ids of the records a result text lists, in the order of the text (the
\* rows of a comparison table repeat the ids of its header).
ListedIds(text) ==
  SelectSeq(UpTo(text, { "rows" }), LAMBDA tok : tok \in { Phones[n].id : n \in 1 .. Len(Phones) })

\* The ids listed by the tool turns of a context, in the order of the turns.
RECURSIVE ShownIds(_)
ShownIds(messages) ==
  IF messages = << >> THEN << >>
  ELSE (IF Head(messages).role = "tool" THEN ListedIds(Head(messages).content) ELSE << >>)
         \o ShownIds(Tail(messages))

\* C21: the cards derived from the tool calls of a turn are the cards of
\* the records the handlers returned for the same calls: the ids of the
\* collected cards are the ids listed in the tool turns, in the same order.
C21_CardsAreTheRecordsShown ==
  \A r \in Reqs : Ids(frame[r].collected_phones) = ShownIds(frame[r].messages)

\* The tool turns of a context that answer a compare call with a result
\* holding the table marker.
CapturingTurns(f) ==
  { n \in 1 .. Len(f.messages) :
      /\ f.messages[n].role = "tool"
      /\ CallOf(f, f.messages[n]).name = "compare_phones"
      /\ Contains(f.messages[n].content, TableMarker) }

\* The greatest member of a non-empty set of positions.
LastOf(positions) == CHOOSE n \in positions : \A m \in positions : m <= n

\* C22: at every point of a turn the captured comparison is the result of
\* the last compare call so far whose result holds the table marker, and
\* none when there was no such call: other tool calls and compare calls
\* without a table leave it unchanged.
C22_LastComparisonCaptured ==
  \A r \in Reqs :
    frame[r].comparison_table
      = IF CapturingTurns(frame[r]) = { } THEN NoneText
        ELSE frame[r].messages[LastOf(CapturingTurns(frame[r]))].content

\* A finalized turn with two different captured results, and a compare call
\* without a table after the last of them.
C22_Witness ==
  \E r \in Reqs :
    /\ Finalized(frame[r])
    /\ \E m, n \in CapturingTurns(frame[r]) :
         /\ m < n
         /\ frame[r].messages[m].content # frame[r].messages[n].content
         /\ n = LastOf(CapturingTurns(frame[r]))
         /\ \E k \in n + 1 .. Len(frame[r].messages) :
              /\ frame[r].messages[k].role = "tool"
              /\ CallOf(frame[r], frame[r].messages[k]).name = "compare_phones"

\* C23: a finalized chat_stream turn that went through k tool batches has
\* emitted 1 + 2k status events and then its complete event, whatever the
\* number of tool calls in each batch.
C23_StatusPerBatch ==
  \A r \in Reqs :
    (Finalized(frame[r]) /\ frame[r].mode = "stream") =>
      /\ Len(frame[r].events) = 1 + 2 * frame[r].iteration + 1
      /\ \A n \in 1 .. Len(frame[r].events) - 1 : frame[r].events[n].type = "status"
      /\ frame[r].events[Len(frame[r].events)].type = "complete"

\* The texts a status generator can return.
StatusStrings ==
  { StatusMessage(i, which, ok) : i \in Impls, which \in StatusKinds, ok \in BOOLEAN }

\* The turns of a sequence of turns.
TurnsOf(turns) == { turns[n] : n \in 1 .. Len(turns) }

\* The status call of a request has a context of its own, and no status text
\* is in the context of the loop or in the store.
StatusCallSeparate(f, h) ==
  /\ ~ f.status_call.tools
  /\ Len(f.status_call.messages) \in { 0, 2 }
  /\ \A turn \in TurnsOf(f.status_call.messages) :
       /\ turn.role \in { "system", "user" }
       /\ turn \notin TurnsOf(f.before)
  /\ \A turn \in TurnsOf(f.messages) : turn.content \notin StatusStrings
  /\ \A s \in DOMAIN h : \A turn \in TurnsOf(h[s]) : turn.content \notin StatusStrings

\* A step of the request from a status call: the cards and the captured table
\* are unchanged, the context is unchanged (after the first status it is
\* built from the system prompt, the stored history and the user message),
\* and the stored histories are unchanged unless the step ends the turn.
StatusStepFrame(f, g, h, k) ==
  /\ g.collected_phones = f.collected_phones
  /\ g.comparison_table = f.comparison_table
  /\ IF f.pc = "thinking"
     THEN g.messages \in { << >>, << Turn("system", SystemPrompt) >> \o Stored(h, f.session_id)
                                    \o << Turn("user", f.message) >> }
     ELSE g.messages = f.messages
  /\ \A s \in Sessions : Stored(k, s) = Stored(h, s) \/ (g.pc = "done" /\ s = f.session_id)

\* C24: every status call has a context of its own, without a turn of the
\* session history and without the tool declarations; it leaves the context
\* of the loop, the collected cards, the captured comparison and the stored
\* history as they were, and no status text is ever in the context of a
\* tool-enabled model call or in the stored history.
C24_StatusCallsAreSeparate ==
  /\ [](\A r \in Reqs : StatusCallSeparate(frame[r], conversation_history))
  /\ [][\A r \in Reqs :
          (frame[r].pc \in { "thinking", "tool_status", "analysis_status" }
             /\ frame'[r] # frame[r]) =>
            StatusStepFrame(frame[r], frame'[r], conversation_history, conversation_history')]_vars

\* A finalized chat_stream turn of a session with stored history that went
\* through a tool batch, with generated and default status texts.
C24_Witness ==
  \E r \in Reqs :
    /\ Finalized(frame[r])
    /\ frame[r].mode = "stream"
    /\ frame[r].before # << >>
    /\ frame[r].iteration >= 1
    /\ frame[r].status_call.messages # << >>
    /\ \E m, n \in 1 .. Len(frame[r].events) - 1 :
         /\ frame[r].events[m].message = << "generated status" >>
         /\ frame[r].events[n].message \in StatusStrings \ { << "generated status" >> }

\* The context a turn starts with.
FirstContext(f, h) ==
  << Turn("system", SystemPrompt) >> \o Stored(h, f.session_id) \o << Turn("user", f.message) >>

\* The request is between its first model call and its end.
InLoop(f) == f.pc \in { "llm", "tool_status", "tool", "analysis_status" }

\* One step of a request in the loop, from frame f to frame g with the
\* store going from h to k: the context grows at its end by at most one
\* turn, the assistant turn of the response just received or the tool turn
\* of the call just dispatched, and the store changes only when the
\* request ends.
ContextStep(f, g, h, k) ==
  /\ Len(g.messages) \in { Len(f.messages), Len(f.messages) + 1 }
  /\ SubSeq(g.messages, 1, Len(f.messages)) = f.messages
  /\ Len(g.messages) = Len(f.messages) + 1 =>
       \/ /\ f.pc = "llm"
          /\ g.response.tool_calls # << >>
          /\ g.messages[Len(g.messages)].role = "assistant"
          /\ g.messages[Len(g.messages)].tool_calls = g.response.tool_calls
       \/ /\ f.pc = "tool"
          /\ g.messages[Len(g.messages)].role = "tool"
          /\ g.messages[Len(g.messages)].tool_call_id = CurrentCall(f).id
  /\ g.pc # "done" => k = h

ContextSteps ==
  \A r \in Reqs :
    (InLoop(frame[r]) /\ frame'[r] # frame[r]) =>
      ContextStep(frame[r], frame'[r], conversation_history, conversation_history')

\* C30: the first model call of a turn is made on the system prompt, the
\* stored history of the session and the new user turn; from then on the
\* context only grows, by the assistant turn of each response with tool
\* calls and the tool turns of its calls; the stored history stays as it is
\* until the request ends.
C30_ContextAppendOnly ==
  /\ [](\A r \in Reqs :
          (frame[r].pc = "llm" /\ frame[r].llm_calls = 0) =>
            /\ frame[r].messages = FirstContext(frame[r], conversation_history)
            /\ Stored(conversation_history, frame[r].session_id) = frame[r].before)
  /\ [](\A r \in Reqs :
          InLoop(frame[r]) =>
            /\ Len(frame[r].messages) >= Len(frame[r].before) + 2
            /\ SubSeq(frame[r].messages, 1, Len(frame[r].before) + 2)
                 = << Turn("system", SystemPrompt) >> \o frame[r].before
                     \o << Turn("user", frame[r].message) >>
            /\ Stored(conversation_history, frame[r].session_id) = frame[r].before)
  /\ [][ContextSteps]_vars

\* A turn on a session with stored turns went through a tool batch and a
\* second model call to its finalization.
C30_Witness ==
  \E r \in Reqs :
    /\ Finalized(frame[r])
    /\ frame[r].before # << >>
    /\ frame[r].llm_calls >= 2
    /\ Len(frame[r].messages) >= Len(frame[r].before) + 4

\* The safety classifier (is_adversarial_query, app implementation) flags
\* the message of the request.
Flagged(i, f) == i = "app" /\ f.pc # "idle" /\ AdversarialKey(f.message) # ""

\* C31: a request whose message the safety classifier flags makes no model
\* call (no tool-enabled call, no status call), dispatches no tool and
\* leaves the stored history of its session as it was; it ends with
\* type=safety_redirect and no phones, in chat and in chat_stream.
C31_FlaggedMessageShortCircuits ==
  \A r \in Reqs :
    Flagged(impl, frame[r]) =>
      /\ frame[r].llm_calls = 0
      /\ frame[r].status_call = NoStatusCall
      /\ frame[r].messages = << >>
      /\ frame[r].collected_phones = << >>
      /\ Stored(conversation_history, frame[r].session_id) = frame[r].before
      /\ frame[r].pc = "done" =>
           /\ frame[r].result.type = "safety_redirect"
           /\ frame[r].result.phones = << >>

\* C33: a turn whose tool turns list no record of the dataset (unknown
\* tool, handler error, rejected arguments, phone not found, too few or too
\* many names to compare) collects no card: it ends with no phones and
\* type=general.
C33_NoRecordNoCard ==
  \A r \in Reqs :
    ShownIds(frame[r].messages) = << >> =>
      /\ frame[r].collected_phones = << >>
      /\ Finalized(frame[r]) =>
           /\ frame[r].result.phones = << >>
           /\ frame[r].result.type = "general"

\* The length of the context the last tool-enabled model call of a turn
\* was made on: the whole context when the last response had no tool
\* calls, else the turns before the assistant turn of that response.
LastCallContext(f) ==
  IF f.response.tool_calls = << >> THEN Len(f.messages)
  ELSE LastOf({ n \in 1 .. Len(f.messages) :
                  /\ f.messages[n].role = "assistant"
                  /\ f.messages[n].tool_calls = f.response.tool_calls }) - 1

\* C34: at the finalization of a turn every tool turn of its context was
\* in the context of a tool-enabled model call: no tool result was appended
\* after the last call.
C34_ToolResultsReachTheModel ==
  \A r \in Reqs :
    Finalized(frame[r]) =>
      \A n \in 1 .. Len(frame[r].messages) :
        frame[r].messages[n].role = "tool" => n <= LastCallContext(frame[r])

(***************************************************************************)
(* HistorySpec: the session store under any sequence of appends, clears    *)
(* and reads, MaxOps operations long.                                      *)
(***************************************************************************)
HistoryStores ==
  { << >>, InitialStore,
    ("s1" :> OldExchange("1")) @@ ("s2" :> Take(FullHistory, HistoryCap - Len(OldExchange("1")))) }

HistInit ==
  /\ impl \in Impls
  /\ scenario = { }
  /\ conversation_history \in HistoryStores
  /\ frame = [r \in Reqs |-> IdleFrame]
  /\ quota = 0
  /\ ops = MaxOps
  /\ last_added = << >>
  /\ failing = { }
  /\ twin_history = InitialStore
  /\ executor = IdleExecutor
  /\ probe = NoProbe
  /\ tools = get_all_tools(impl)

\* _add_to_history(session_id, user_msg, ai_msg)
AddExchange(session_id, user_msg, ai_msg) ==
  /\ ops > 0
  /\ ops' = ops - 1
  /\ conversation_history' = add_to_history(conversation_history, session_id, user_msg, ai_msg)
  /\ last_added' = [s \in DOMAIN last_added \cup { session_id } |->
                      IF s = session_id THEN Exchange(user_msg, ai_msg) ELSE last_added[s]]
  /\ UNCHANGED << impl, scenario, frame, quota, failing, twin_history, executor, probe, tools >>

\* clear_history(session_id)
ClearSession(session_id) ==
  /\ ops > 0
  /\ ops' = ops - 1
  /\ conversation_history' = clear_history(conversation_history, session_id)
  /\ last_added' = [s \in DOMAIN last_added \ { session_id } |-> last_added[s]]
  /\ UNCHANGED << impl, scenario, frame, quota, failing, twin_history, executor, probe, tools >>

\* _get_history(session_id)
ReadHistory(session_id) ==
  /\ ops > 0
  /\ ops' = ops - 1
  /\ conversation_history' = get_history(conversation_history, session_id)
  /\ UNCHANGED << impl, scenario, frame, quota, last_added, failing, twin_history, executor, probe, tools >>

HistNext ==
  \E session_id \in Sessions :
    \/ \E user_msg \in UserMessages, ai_msg \in { Txt, EmptyText } :
         AddExchange(session_id, user_msg, ai_msg)
    \/ ClearSession(session_id)
    \/ ReadHistory(session_id)

HistorySpec == HistInit /\ [][HistNext]_vars

\* C3: every stored history has at most 20 turns, and a session with an
\* exchange appended since its last clear ends with that exchange's user turn
\* and assistant turn, in that order.
C3_HistoryCapAndLastPair ==
  \A s \in DOMAIN conversation_history :
    /\ Len(conversation_history[s]) <= HistoryCap
    /\ s \in DOMAIN last_added =>
         /\ Len(conversation_history[s]) >= Len(last_added[s])
         /\ LastN(conversation_history[s], Len(last_added[s])) = last_added[s]
         /\ last_added[s][1].role = "user"

\* An exchange was appended to the full history of s2 and the oldest exchange dropped.
C3_Witness ==
  /\ "s2" \in DOMAIN last_added
  /\ "s2" \in DOMAIN conversation_history
  /\ Len(conversation_history["s2"]) = HistoryCap
  /\ conversation_history["s2"][1] = OldExchange("2")[1]

\* Every session other than s has the same entry, or the same absence, in h and g.
OthersUnchanged(h, g, s) ==
  \A t \in Sessions \ { s } :
    /\ t \in DOMAIN h <=> t \in DOMAIN g
    /\ t \in DOMAIN h => h[t] = g[t]

\* C11: a read of a session creates its entry, empty when there was none, and
\* touches no other entry; a clear removes the entry, so that the read after
\* it gives the empty history, changes nothing when there was no entry, and
\* leaves every other session as it was.
C11_SessionStoreOperations ==
  [][\A s \in Sessions :
       /\ ReadHistory(s) =>
            /\ s \in DOMAIN conversation_history'
            /\ s \notin DOMAIN conversation_history => conversation_history'[s] = << >>
            /\ s \in DOMAIN conversation_history =>
                 conversation_history'[s] = conversation_history[s]
            /\ OthersUnchanged(conversation_history, conversation_history', s)
       /\ ClearSession(s) =>
            /\ s \notin DOMAIN conversation_history'
            /\ Stored(conversation_history', s) = << >>
            /\ get_history(conversation_history', s)[s] = << >>
            /\ s \notin DOMAIN conversation_history =>
                 conversation_history' = conversation_history
            /\ OthersUnchanged(conversation_history, conversation_history', s)]_vars

\* The full history of s2 was cleared as the first operation, next to the
\* stored exchange of s1.
C11_Witness ==
  /\ ops = MaxOps - 1
  /\ "s2" \notin DOMAIN conversation_history
  /\ "s1" \in DOMAIN conversation_history
  /\ conversation_history["s1"] = OldExchange("1")

(***************************************************************************)
(* RaceSpec: NReq requests, chat or chat_stream, on the same session id,   *)
(* interleaved at their suspension points.  Each request sends a message   *)
(* of its own, so that its turns can be told apart in the history.         *)
(***************************************************************************)
RaceSession == "s2"
RaceMessage(r) == << "Show", " ", "phones", " ", ToString(r) >>
ScenRace == { ToolResponse(Txt, << CallSearchCamera >>) }
RaceStores == { InitialStore, (RaceSession :> OldExchange("1")) }

RaceInit ==
  /\ impl \in Impls
  /\ scenario = ScenRace
  /\ conversation_history \in RaceStores
  /\ frame = [r \in Reqs |-> IdleFrame]
  /\ quota = NReq
  /\ ops = 0
  /\ last_added = << >>
  /\ failing = { }
  /\ twin_history = InitialStore
  /\ executor = IdleExecutor
  /\ probe = NoProbe
  /\ tools = get_all_tools(impl)

\* A request arrives while others may be suspended.
RaceBegin(r) ==
  /\ frame[r].pc = "idle"
  /\ quota > 0
  /\ quota' = quota - 1
  /\ \/ Set(r, BuildContext(impl, Started("chat", RaceMessage(r), RaceSession,
                                          conversation_history),
                            conversation_history))
     \/ Set(r, Out([Started("stream", RaceMessage(r), RaceSession, conversation_history)
                      EXCEPT !.pc = "thinking"], conversation_history))
  /\ UNCHANGED << impl, scenario, ops, last_added, failing, twin_history, executor, probe, tools >>

RaceNext ==
  \E r \in Reqs :
    \/ RaceBegin(r)
    \/ Thinking(r)
    \/ CallModel(r)
    \/ ToolStatus(r)
    \/ DispatchTool(r)
    \/ AnalysisStatus(r)

RaceSpec == RaceInit /\ [][RaceNext]_vars

\* The positions of the user turns of request r in a history.
UserTurnsOf(history, r) ==
  { n \in 1 .. Len(history) : history[n] = Turn("user", RaceMessage(r)) }

\* C12: under every interleaving the shared history has at most 20 turns and
\* alternates user and assistant turns; a request that completed its loop has
\* exactly one user turn in it, directly followed by the assistant turn with
\* its response; a request that has not completed, or ended in an error, has
\* none.
C12_HistoryMutationAtomic ==
  LET history == Stored(conversation_history, RaceSession)
  IN  /\ Len(history) <= HistoryCap
      /\ \A n \in 1 .. Len(history) :
           history[n].role = IF n % 2 = 1 THEN "user" ELSE "assistant"
      /\ Len(history) % 2 = 0
      /\ \A r \in Reqs :
           IF Finalized(frame[r])
           THEN /\ Cardinality(UserTurnsOf(history, r)) = 1
                /\ \A n \in UserTurnsOf(history, r) :
                     /\ n < Len(history)
                     /\ history[n + 1] = Turn("assistant", frame[r].result.response)
           ELSE UserTurnsOf(history, r) = { }

\* Two streams read the full history before either wrote to it, ran tools,
\* and both completed.
C12_Witness ==
  /\ Finalized(frame[1])
  /\ Finalized(frame[2])
  /\ frame[1].mode = "stream"
  /\ frame[2].mode = "stream"
  /\ frame[1].before = frame[2].before
  /\ frame[1].before = FullHistory
  /\ frame[1].iteration >= 1
  /\ frame[2].iteration >= 1
  /\ Len(Stored(conversation_history, RaceSession)) = HistoryCap

(***************************************************************************)
(* ClearRaceSpec: the requests of RaceSpec on one session, interleaved     *)
(* with NClear calls of clear_history for that session (POST               *)
(* /api/chat/clear runs between any two steps of the requests).            *)
(***************************************************************************)
ClearRaceInit ==
  /\ impl \in Impls
  /\ scenario = ScenRace
  /\ conversation_history \in RaceStores
  /\ frame = [r \in Reqs |-> IdleFrame]
  /\ quota = NReq
  /\ ops = NClear
  /\ last_added = << >>
  /\ failing = { }
  /\ twin_history = InitialStore
  /\ executor = IdleExecutor
  /\ probe = NoProbe
  /\ tools = get_all_tools(impl)

ClearRaceNext == RaceNext \/ ClearSession(RaceSession)

ClearRaceSpec == ClearRaceInit /\ [][ClearRaceNext]_vars

\* C32: every stored history has an even number of turns, user and
\* assistant in alternation from a user turn on, none of them a system
\* turn, a tool turn or an assistant turn with tool calls; under every
\* interleaving of requests and clears, trimmed or not.
C32_StoredHistoryAlternates ==
  \A s \in DOMAIN conversation_history :
    /\ Len(conversation_history[s]) % 2 = 0
    /\ \A n \in 1 .. Len(conversation_history[s]) :
         /\ conversation_history[s][n].role = (IF n % 2 = 1 THEN "user" ELSE "assistant")
         /\ conversation_history[s][n].tool_calls = << >>
         /\ conversation_history[s][n].tool_call_id = NoId

\* The first request ran on the full history and its exchange was stored
\* with a trim; the session was then cleared while the second request was
\* running, and that request stored its exchange afterwards.
C32_Witness ==
  /\ Finalized(frame[1])
  /\ Finalized(frame[2])
  /\ frame[1].before = FullHistory
  /\ Len(frame[2].before) = HistoryCap
  /\ frame[2].before # FullHistory
  /\ ops < NClear
  /\ Len(Stored(conversation_history, RaceSession)) = 2

\* The turns of the histories the store starts with.
OldTurns == { FullHistory[n] : n \in 1 .. Len(FullHistory) }

\* Request r started before the first clear: the history it found held a
\* turn of the initial store.  (Until the first clear the stored history
\* keeps such a turn, and it never holds one afterwards unless a turn
\* stored before the clear comes back.)
StartedBeforeClear(f) ==
  /\ f.pc # "idle"
  /\ \E n \in 1 .. Len(f.before) : f.before[n] \in OldTurns

\* C35: once a clear of the session has completed, its history holds no
\* turn stored before the clear and no exchange of a chat_stream request
\* that started before the clear, whenever that request finishes.
C35_ClearWinsOverInFlight ==
  ops < NClear =>
    LET history == Stored(conversation_history, RaceSession)
    IN  /\ \A n \in 1 .. Len(history) : history[n] \notin OldTurns
        /\ \A r \in Reqs :
             (frame[r].mode = "stream" /\ StartedBeforeClear(frame[r])) =>
               UserTurnsOf(history, r) = { }

\* The names a model may ask for: the registered ones and one that is not.
DispatchNames == AgentToolNames \cup AppToolNames \cup { "no_such_tool" }

\* The tool turns of a context whose call found no tool.
NotFoundTurns(f) ==
  { n \in 1 .. Len(f.messages) :
      /\ f.messages[n].role = "tool"
      /\ f.messages[n].content = NotFoundText(CallOf(f, f.messages[n]).name) }

\* C37: the tool list is the one built at construction, whatever requests
\* and clears have run; no two of its tools have the same name; the
\* dispatch of a name invokes at most one handler, the tool of exactly that
\* name, and answers 'not found' exactly when there is none.
C37_ToolSetFixed ==
  /\ [](/\ tools = get_all_tools(impl)
        /\ \A m, n \in 1 .. Len(tools) : tools[m] = tools[n] => m = n
        /\ \A name \in DispatchNames :
             /\ Len(InvokedFor(tools, name)) <= 1
             /\ InvokedFor(tools, name) # << >> <=> name \in ToolNames(impl)
             /\ \A n \in 1 .. Len(InvokedFor(tools, name)) : InvokedFor(tools, name)[n] = name
        /\ \A r \in Reqs : \A n \in 1 .. Len(frame[r].messages) :
             frame[r].messages[n].role = "tool" =>
               (n \in NotFoundTurns(frame[r])
                  <=> InvokedFor(tools, CallOf(frame[r], frame[r].messages[n]).name) = << >>))
  /\ [][tools' = tools]_vars

\* A chat request and a chat_stream request dispatched a tool and ended,
\* and the session was cleared.
C37_Witness ==
  /\ ops < NClear
  /\ \E r, q \in Reqs :
       /\ Finalized(frame[r])
       /\ Finalized(frame[q])
       /\ frame[r].mode = "chat"
       /\ frame[q].mode = "stream"
       /\ frame[r].iteration >= 1
       /\ frame[q].iteration >= 1

(***************************************************************************)
(* LiveSpec: one request whose tool-enabled model call may never return.   *)
(* _call_llm passes no timeout and neither chat nor chat_stream sets a     *)
(* deadline, so a request blocked in the call has no further step.  Every  *)
(* step the program can take is taken (weak fairness).                     *)
(***************************************************************************)
ScenLive == { ToolResponse(NoneText, << CallUnknown >>) }

LiveInit ==
  /\ impl \in Impls
  /\ scenario = ScenLive
  /\ conversation_history = InitialStore
  /\ frame = [r \in Reqs |-> IdleFrame]
  /\ quota = 1
  /\ ops = 0
  /\ last_added = << >>
  /\ failing = { }
  /\ twin_history = InitialStore
  /\ executor = IdleExecutor
  /\ probe = NoProbe
  /\ tools = get_all_tools(impl)

\* client.chat.completions.create(**params) does not return.
ModelNeverReturns(r) ==
  /\ frame[r].pc = "llm"
  /\ frame' = [frame EXCEPT ![r].pc = "blocked", ![r].llm_calls = @ + 1]
  /\ UNCHANGED << impl, scenario, conversation_history, quota, ops, last_added, failing,
                  twin_history, executor, probe, tools >>

LiveNext ==
  \E r \in Reqs :
    \/ Begin(r)
    \/ Thinking(r)
    \/ CallModel(r)
    \/ ModelNeverReturns(r)
    \/ ToolStatus(r)
    \/ DispatchTool(r)
    \/ AnalysisStatus(r)

LiveSpec == LiveInit /\ [][LiveNext]_vars /\ WF_vars(LiveNext)

\* C13: every request that has started eventually ends with a result, also
\* when a model call never returns (a deadline aborts it with the error
\* result).
C13_DeadlineAborts ==
  \A r \in Reqs : (frame[r].pc # "idle") ~> (frame[r].pc = "done")

(***************************************************************************)
(* IsoSpec: request r, chat or chat_stream, runs on the session of its     *)
(* own, interleaved with the other requests and with clear requests for    *)
(* any session.  The stored turns of the sessions, the messages and the    *)
(* answers of the requests all differ, so that every turn can be told      *)
(* apart.                                                                  *)
(***************************************************************************)
IsoSession(r) == IF r % 2 = 1 THEN "s1" ELSE "s2"
IsoStore == ("s1" :> OldExchange("1")) @@ ("s2" :> OldExchange("2"))
IsoAnswer(r) == << "Answer", " ", ToString(r) >>

IsoInit ==
  /\ impl \in Impls
  /\ scenario = ScenLive
  /\ conversation_history = IsoStore
  /\ frame = [r \in Reqs |-> IdleFrame]
  /\ quota = NReq
  /\ ops = MaxOps
  /\ last_added = << >>
  /\ failing = { }
  /\ twin_history = InitialStore
  /\ executor = IdleExecutor
  /\ probe = NoProbe
  /\ tools = get_all_tools(impl)

\* Request r arrives for its session while others may be suspended.
IsoBegin(r) ==
  /\ frame[r].pc = "idle"
  /\ quota > 0
  /\ quota' = quota - 1
  /\ \/ Set(r, BuildContext(impl, Started("chat", RaceMessage(r), IsoSession(r),
                                          conversation_history),
                            conversation_history))
     \/ Set(r, Out([Started("stream", RaceMessage(r), IsoSession(r), conversation_history)
                      EXCEPT !.pc = "thinking"], conversation_history))
  /\ UNCHANGED << impl, scenario, ops, last_added, failing, twin_history, executor, probe, tools >>

\* One tool-enabled model call of request r: a tool call, the answer of the
\* request, or a failure.
IsoCallModel(r) ==
  /\ frame[r].pc = "llm"
  /\ \E resp \in scenario \cup { TextResponse(IsoAnswer(r)), BackendRaises } :
       Set(r, OnResponse(impl, frame[r], conversation_history, resp))
  /\ UNCHANGED << impl, scenario, quota, ops, last_added, failing, twin_history, executor, probe, tools >>

IsoNext ==
  \/ \E r \in Reqs :
       \/ IsoBegin(r)
       \/ Thinking(r)
       \/ IsoCallModel(r)
       \/ ToolStatus(r)
       \/ DispatchTool(r)
       \/ AnalysisStatus(r)
  \/ \E session_id \in Sessions : ClearSession(session_id)

IsoSpec == IsoInit /\ [][IsoNext]_vars

\* The turns that belong to a session: those stored for it at the start, and
\* the messages and answers of the requests that run on it.
SessionTurns(s) ==
  TurnsOf(IsoStore[s])
    \cup { Turn("user", RaceMessage(r)) : r \in { q \in Reqs : IsoSession(q) = s } }
    \cup { Turn("assistant", IsoAnswer(r)) : r \in { q \in Reqs : IsoSession(q) = s } }

\* A step changes the stored history of no session but the one of the
\* request that takes it; a step of no request (a clear) empties one session
\* and changes no other.
OwnSessionOnly ==
  /\ \A r \in Reqs :
       frame'[r] # frame[r] =>
         \A s \in Sessions \ { IsoSession(r) } :
           Stored(conversation_history', s) = Stored(conversation_history, s)
  /\ frame' = frame =>
       \E s \in Sessions :
         /\ Stored(conversation_history', s) = << >>
         /\ \A t \in Sessions \ { s } :
              Stored(conversation_history', t) = Stored(conversation_history, t)

\* C25: a step of a request for one session leaves the stored history of
\* every other session unchanged, a clear request changes no session but
\* its own, and the context of a request never holds a turn of another
\* session, under every interleaving of the requests.
C25_SessionsAreIndependent ==
  /\ [](\A r \in Reqs : \A s \in Sessions \ { IsoSession(r) } :
          /\ frame[r].pc # "idle" => frame[r].session_id = IsoSession(r)
          /\ TurnsOf(frame[r].messages) \cap SessionTurns(s) = { }
          /\ TurnsOf(Stored(conversation_history, s)) \cap SessionTurns(IsoSession(r)) = { })
  /\ [][OwnSessionOnly]_vars

\* Both requests were in progress at once, each with the stored turns of its
\* session in its context, one session was cleared meanwhile, and both
\* completed.
C25_Witness ==
  /\ \A r \in Reqs :
       /\ Finalized(frame[r])
       /\ frame[r].before # << >>
       /\ frame[r].iteration >= 1
       /\ TurnsOf(frame[r].messages) \cap SessionTurns(IsoSession(r)) # { }
  /\ ops < MaxOps
  /\ Stored(conversation_history, "s1") = Exchange(RaceMessage(1), IsoAnswer(1))
  /\ Len(Stored(conversation_history, "s2")) = 4

(***************************************************************************)
(* PoolSpec: NStream chat_stream requests at once, more than the pool has  *)
(* workers.  A model call is submitted where the request awaits it; a      *)
(* worker takes the oldest waiting call when fewer than max_workers calls  *)
(* are executing; the request resumes when its call has returned.  All     *)
(* requests send the same message on a session whose stored history is     *)
(* full of that same exchange, and the model answers without tool calls.   *)
(***************************************************************************)
StreamReqs == 1 .. NStream
PoolSession == "s1"

RECURSIVE Repeated(_, _)
Repeated(turns, n) == IF n = 0 THEN << >> ELSE turns \o Repeated(turns, n - 1)

PoolStore == (PoolSession :> Repeated(Exchange(MsgNormal, Txt), HistoryCap \div 2))

\* Variant: the model calls of chat_stream are made on the event loop.
CallSiteOnLoop(i, mode) == "loop"

\* Where a model call of a request executes: chat_stream hands every call,
\* of the loop and of the status generators, to the executor; chat calls the
\* client itself.
CallSite(i, mode) == IF mode = "stream" THEN "pool" ELSE "loop"

\* loop.run_in_executor(_executor, ...): the call of request r is submitted.
Submit(e, r, site) ==
  IF site = "pool" THEN [e EXCEPT !.queue = Append(@, r)]
  ELSE [e EXCEPT !.on_loop = @ \cup { r }]

\* The call of request r has returned.
Release(e, r) == [e EXCEPT !.running = @ \ { r }, !.on_loop = @ \ { r }]

\* The executor after a step of request r that left it in frame g: the next
\* model call is submitted unless the turn has ended.
Resume(e, r, g) ==
  IF g.pc = "done" THEN Release(e, r)
  ELSE Submit(Release(e, r), r, CallSite(impl, g.mode))

PoolInit ==
  /\ impl \in Impls
  /\ scenario = { }
  /\ conversation_history = PoolStore
  /\ frame = [r \in StreamReqs |-> IdleFrame]
  /\ quota = NStream
  /\ ops = 0
  /\ last_added = << >>
  /\ failing = { }
  /\ twin_history = InitialStore
  /\ executor = IdleExecutor
  /\ probe = NoProbe
  /\ tools = get_all_tools(impl)

\* A chat_stream request arrives and awaits its first status call.  The
\* requests are numbered in the order of their arrival.
PoolBegin(r) ==
  /\ frame[r].pc = "idle"
  /\ \A q \in 1 .. r - 1 : frame[q].pc # "idle"
  /\ quota > 0
  /\ quota' = quota - 1
  /\ Set(r, Out([Started("stream", MsgNormal, PoolSession, conversation_history)
                   EXCEPT !.pc = "thinking"], conversation_history))
  /\ executor' = Submit(executor, r, CallSite(impl, "stream"))
  /\ UNCHANGED << impl, scenario, ops, last_added, failing, twin_history, probe, tools >>

\* A worker takes the oldest waiting call.
WorkerStarts ==
  /\ executor.queue # << >>
  /\ Cardinality(executor.running) < max_workers
  /\ executor' = [executor EXCEPT !.queue = Tail(@), !.running = @ \cup { Head(executor.queue) }]
  /\ UNCHANGED << impl, scenario, conversation_history, frame, quota, ops, last_added,
                  failing, twin_history, probe, tools >>

\* The status call of request r returns: the status event, the context, and
\* the first model call of the loop is submitted.
StatusReturns(r) ==
  /\ r \in executor.running \cup executor.on_loop
  /\ frame[r].pc = "thinking"
  /\ LET out == OnStatus(impl, frame[r], conversation_history, "thinking",
                         "thinking" \notin failing)
     IN  /\ Set(r, out)
         /\ executor' = Resume(executor, r, out.f)
  /\ UNCHANGED << impl, scenario, quota, ops, last_added, failing, twin_history, probe, tools >>

\* The model call of the loop of request r returns: the turn is finalized.
ModelReturns(r) ==
  /\ r \in executor.running \cup executor.on_loop
  /\ frame[r].pc = "llm"
  /\ \E resp \in { TextResponse(Txt), BackendRaises } :
       LET out == OnResponse(impl, frame[r], conversation_history, resp)
       IN  /\ Set(r, out)
           /\ executor' = Resume(executor, r, out.f)
  /\ UNCHANGED << impl, scenario, quota, ops, last_added, failing, twin_history, probe, tools >>

PoolNext ==
  \/ \E r \in StreamReqs :
       \/ PoolBegin(r)
       \/ StatusReturns(r)
       \/ ModelReturns(r)
  \/ WorkerStarts

\* The workers run and the executing model calls return: a step is taken
\* while one is possible.
PoolSpec == PoolInit /\ [][PoolNext]_vars /\ WF_vars(PoolNext)

\* The requests that await a model call.
Awaiting == { r \in StreamReqs : frame[r].pc \in { "thinking", "llm" } }

\* The positions of the queue.
Queued == { executor.queue[n] : n \in 1 .. Len(executor.queue) }

Limits == (0 - MaxLimit) .. MaxLimit
ProbePrices == { NoneInt, SomeInt(0), SomeInt(20), SomeInt(70) }
ProbeRams == { NoneInt, SomeInt(12) }
ProbeBrands == { "samsung", "nokia" }
ProbeQueries == { NoneText, << "camera" >>, << "zzz" >> }
RankedOps == { "get_best_camera_phones", "get_best_battery_phones", "get_gaming_phones" }

FacadeCallOf(op, query, brand, min_price, max_price, min_ram, limit) ==
  [stage |-> "given", op |-> op, query |-> query, brand |-> brand, min_price |-> min_price,
   max_price |-> max_price, min_ram |-> min_ram, limit |-> limit, output |-> << >>,
   again |-> << >>]

\* The calls probed: each operation with the parameters it has.
FacadeCalls ==
  { FacadeCallOf("search_phones", q, b, lo, hi, ram, n) :
      q \in ProbeQueries, b \in ProbeBrands \cup { NoneStr }, lo \in ProbePrices,
      hi \in ProbePrices, ram \in ProbeRams, n \in Limits }
  \cup { FacadeCallOf(op, NoneText, NoneStr, NoneInt, hi, NoneInt, n) :
           op \in RankedOps, hi \in ProbePrices, n \in Limits }
  \cup { FacadeCallOf("get_compact_phones", NoneText, NoneStr, lo, hi, ram, n) :
           lo \in ProbePrices, hi \in ProbePrices, ram \in ProbeRams, n \in Limits }
  \cup { FacadeCallOf("get_phones_by_brand", NoneText, b, NoneInt, hi, NoneInt, n) :
           b \in ProbeBrands, hi \in ProbePrices, n \in Limits }

\* phone_service.<op>(...) of a probed call.
Facade(c) ==
  CASE c.op = "search_phones" ->
         search_phones(c.query, c.brand, c.min_price, c.max_price, c.min_ram, NoneStr,
                       NoneInt, c.limit)
    [] c.op = "get_best_camera_phones" -> get_best_camera_phones(c.max_price, c.limit)
    [] c.op = "get_best_battery_phones" -> get_best_battery_phones(c.max_price, c.limit)
    [] c.op = "get_gaming_phones" -> get_gaming_phones(c.max_price, c.limit)
    [] c.op = "get_compact_phones" ->
         get_compact_phones(c.min_price, c.max_price, c.min_ram, c.limit)
    [] OTHER -> get_phones_by_brand(c.brand, c.max_price, c.limit)

FacadeInit ==
  /\ impl = "agent"
  /\ scenario = { }
  /\ conversation_history = << >>
  /\ frame = [r \in Reqs |-> IdleFrame]
  /\ quota = 0
  /\ ops = 0
  /\ last_added = << >>
  /\ failing = { }
  /\ twin_history = << >>
  /\ executor = IdleExecutor
  /\ probe \in FacadeCalls
  /\ tools = get_all_tools(impl)

\* The operation is called.
FacadeCall ==
  /\ probe.stage = "given"
  /\ probe' = [probe EXCEPT !.stage = "returned", !.output = Facade(probe)]
  /\ UNCHANGED << impl, scenario, conversation_history, frame, quota, ops, last_added,
                  failing, twin_history, executor, tools >>

\* The operation is called again with the same input.
FacadeCallAgain ==
  /\ probe.stage = "returned"
  /\ probe' = [probe EXCEPT !.stage = "repeated", !.again = Facade(probe)]
  /\ UNCHANGED << impl, scenario, conversation_history, frame, quota, ops, last_added,
                  failing, twin_history, executor, tools >>

FacadeNext == FacadeCall \/ FacadeCallAgain

FacadeSpec == FacadeInit /\ [][FacadeNext]_vars

\* C27: a list-returning facade operation returns at most `limit` records
\* (none for a limit of zero or less), all of them records of the dataset,
\* none twice; it returns the same list when called again with the same
\* input; and it returns the empty list when no record has the brand asked
\* for.
C27_FacadeRespectsLimit ==
  probe.stage \in { "returned", "repeated" } =>
    /\ Len(probe.output) <= (IF probe.limit > 0 THEN probe.limit ELSE 0)
    /\ \A n \in 1 .. Len(probe.output) :
         /\ \E m \in 1 .. Len(Phones) : Phones[m] = probe.output[n]
         /\ \A m \in 1 .. n - 1 : probe.output[m] # probe.output[n]
    /\ probe.stage = "repeated" => probe.again = probe.output
    /\ probe.brand = "nokia" => probe.output = << >>

(***************************************************************************)
(* HandlerSpec: one invocation of a tool handler that takes numeric        *)
(* arguments, each given as absent, a number, a string holding a number    *)
(* or a string that holds none.                                            *)
(***************************************************************************)
ProbeValues == { Absent, JInt(0), JInt(20), JNumStr(20), JStr }
ProbeFlags == { Absent, JStr }
NumericHandlers(i) ==
  IF i = "agent" THEN { "search_phones" }
  ELSE { "search_phones", "get_best_camera_phones", "get_best_battery_phones",
         "get_compact_phones", "get_gaming_phones", "get_phones_by_brand" }

HandlerArgs ==
  { [EmptyArgs EXCEPT !.brand = "samsung", !.min_price = lo, !.max_price = hi,
                      !.min_ram = ram, !.min_battery = bat, !.limit = n] :
      lo \in ProbeFlags, hi \in ProbeValues, ram \in ProbeFlags, bat \in ProbeFlags,
      n \in ProbeValues }

HandlerInit ==
  /\ impl \in Impls
  /\ scenario = { }
  /\ conversation_history = << >>
  /\ frame = [r \in Reqs |-> IdleFrame]
  /\ quota = 0
  /\ ops = 0
  /\ last_added = << >>
  /\ failing = { }
  /\ twin_history = << >>
  /\ executor = IdleExecutor
  /\ probe \in { [stage |-> "given", name |-> name, args |-> args, out |-> Ok(<< >>)] :
                    name \in NumericHandlers(impl), args \in HandlerArgs }
  /\ tools = get_all_tools(impl)

\* tool.invoke(tool_args) of the probed handler.
HandlerCall ==
  /\ probe.stage = "given"
  /\ probe' = [probe EXCEPT !.stage = "returned",
                            !.out = Invoke(impl, probe.name, Obj(probe.args))]
  /\ UNCHANGED << impl, scenario, conversation_history, frame, quota, ops, last_added,
                  failing, twin_history, executor, tools >>

HandlerNext == HandlerCall

HandlerSpec == HandlerInit /\ [][HandlerNext]_vars

\* The arguments with every value that holds no integer taken away.
WithoutJunk(args) ==
  LET Clean(x) == IF x.t = "str" THEN Absent ELSE x
  IN  [args EXCEPT !.min_price = Clean(args.min_price), !.max_price = Clean(args.max_price),
                   !.min_ram = Clean(args.min_ram), !.min_battery = Clean(args.min_battery),
                   !.limit = Clean(args.limit)]

\* C28: a tool handler given a numeric argument that is missing or holds no
\* integer does not raise and returns the result text it returns when that
\* argument is absent.
C28_NumericArgumentsTolerated ==
  probe.stage = "returned" =>
    /\ ~ probe.out.raised
    /\ probe.out = Invoke(impl, probe.name, Obj(WithoutJunk(probe.args)))

(***************************************************************************)
(* LookupSpec: one call of get_phone_by_name, with the records of the      *)
(* dataset in any rotation of the file order or of its reverse.            *)
(***************************************************************************)
Rotated(s, k) == [i \in 1 .. Len(s) |-> s[((i + k - 1) % Len(s)) + 1]]
Reversed(s) == [i \in 1 .. Len(s) |-> s[Len(s) + 1 - i]]
DatasetOrders ==
  { Rotated(Phones, k) : k \in 0 .. Len(Phones) - 1 }
  \cup { Rotated(Reversed(Phones), k) : k \in 0 .. Len(Phones) - 1 }

NameTokens == { "Pixel", "pixel", " ", "8", "Pro", "Galaxy", "zzz" }
NameCores ==
  { << >> } \cup { << x >> : x \in NameTokens }
  \cup { << x, y >> : x \in NameTokens, y \in NameTokens }
  \cup { << x, y, z >> : x \in NameTokens, y \in NameTokens, z \in NameTokens }
Paddings == { << >>, << " " >>, << "\n", " " >> }
ProbeNames == { l \o core \o r : l \in Paddings, core \in NameCores, r \in Paddings }

LookupInit ==
  /\ impl = "agent"
  /\ scenario = { }
  /\ conversation_history = << >>
  /\ frame = [r \in Reqs |-> IdleFrame]
  /\ quota = 0
  /\ ops = 0
  /\ last_added = << >>
  /\ failing = { }
  /\ twin_history = << >>
  /\ executor = IdleExecutor
  /\ probe \in { [stage |-> "given", phones |-> phones, name |-> name, out |-> NoPhone] :
                    phones \in DatasetOrders, name \in ProbeNames }
  /\ tools = get_all_tools(impl)

\* phone_service.get_phone_by_name(name)
LookupCall ==
  /\ probe.stage = "given"
  /\ probe' = [probe EXCEPT !.stage = "returned",
                            !.out = MatchNameIn(probe.phones, Strip(Lower(probe.name)))]
  /\ UNCHANGED << impl, scenario, conversation_history, frame, quota, ops, last_added,
                  failing, twin_history, executor, tools >>

LookupNext == LookupCall

LookupSpec == LookupInit /\ [][LookupNext]_vars

\* The records whose lower-cased name is the trimmed lower-cased query, and
\* those whose lower-cased name contains it.
NamedExactly(phones, name) ==
  { phones[n] : n \in { m \in 1 .. Len(phones) : Lower(phones[m].name) = Strip(Lower(name)) } }
NamedLike(phones, name) ==
  { phones[n] : n \in { m \in 1 .. Len(phones) :
                           Contains(Lower(phones[m].name), Strip(Lower(name))) } }

\* C29: get_phone_by_name returns a record named exactly like the query
\* (case ignored, query trimmed) when there is one; otherwise a record of
\* shortest name among those whose name contains the query; otherwise
\* nothing.  The order of the dataset does not matter.
C29_ExactThenShortestSubstring ==
  probe.stage = "returned" =>
    IF NamedExactly(probe.phones, probe.name) # { }
    THEN probe.out \in NamedExactly(probe.phones, probe.name)
    ELSE IF NamedLike(probe.phones, probe.name) # { }
    THEN /\ probe.out \in NamedLike(probe.phones, probe.name)
         /\ \A p \in NamedLike(probe.phones, probe.name) :
              StrLen(probe.out.name) <= StrLen(p.name)
    ELSE probe.out = NoPhone

\* An exact match is returned although a longer name containing the query,
\* written with capitals and padding, comes first in the dataset.
C29_Witness ==
  /\ probe.stage = "returned"
  /\ probe.name # Strip(Lower(probe.name))
  /\ probe.out \in NamedExactly(probe.phones, probe.name)
  /\ probe.phones[1] \in NamedLike(probe.phones, probe.name) \ { probe.out }

(***************************************************************************)
(* TwinSpec: two chat_stream runs in lock step, frame[1] against the store *)
(* conversation_history and frame[2] against twin_history.  Both get the   *)
(* same message, session state, model responses and tool results; the      *)
(* status calls in `failing` fail in the first run, none fails in the      *)
(* second.                                                                 *)
(***************************************************************************)
SetBoth(out, twin) ==
  /\ frame' = [frame EXCEPT ![1] = out.f, ![2] = twin.f]
  /\ conversation_history' = out.h
  /\ twin_history' = twin.h

Both(pc) == frame[1].pc = pc /\ frame[2].pc = pc

TwinBegin ==
  /\ Both("idle")
  /\ quota > 0
  /\ quota' = quota - 1
  /\ failing' \in FaultPatterns
  /\ \E message \in UserMessages, session_id \in Sessions :
       SetBoth(Out([Started("stream", message, session_id, conversation_history)
                      EXCEPT !.pc = "thinking"], conversation_history),
               Out([Started("stream", message, session_id, twin_history)
                      EXCEPT !.pc = "thinking"], twin_history))
  /\ UNCHANGED << impl, scenario, ops, last_added, executor, probe, tools >>

TwinStatus(which, pc) ==
  /\ Both(pc)
  /\ SetBoth(OnStatus(impl, frame[1], conversation_history, which, which \notin failing),
             OnStatus(impl, frame[2], twin_history, which, TRUE))
  /\ UNCHANGED << impl, scenario, quota, ops, last_added, failing, executor, probe, tools >>

TwinThinking == TwinStatus("thinking", "thinking")
TwinToolStatus == TwinStatus("tool", "tool_status")
TwinAnalysisStatus == TwinStatus("analysis", "analysis_status")

TwinCallModel ==
  /\ Both("llm")
  /\ \E resp \in Backend :
       SetBoth(OnResponse(impl, frame[1], conversation_history, resp),
               OnResponse(impl, frame[2], twin_history, resp))
  /\ UNCHANGED << impl, scenario, quota, ops, last_added, failing, executor, probe, tools >>

TwinDispatchTool ==
  /\ Both("tool")
  /\ SetBoth(OnToolCall(impl, frame[1], conversation_history),
             OnToolCall(impl, frame[2], twin_history))
  /\ UNCHANGED << impl, scenario, quota, ops, last_added, failing, executor, probe, tools >>

TwinNext ==
  \/ TwinBegin
  \/ TwinThinking
  \/ TwinCallModel
  \/ TwinToolStatus
  \/ TwinDispatchTool
  \/ TwinAnalysisStatus

TwinSpec == Init /\ [][TwinNext]_vars

DefaultStrings == { StatusDefault(i, which) : i \in Impls, which \in StatusKinds }

\* C10: the run with failing status calls stays in step with the run without:
\* it is never aborted by a status call, its events differ from the other
\* run's only in status messages replaced by a default string, and when it
\* has ended the other has ended with the same result and the same stored
\* history.
C10_StatusFailuresDoNotMatter ==
  /\ frame[1].pc = frame[2].pc
  /\ frame[1].failure # "status"
  /\ Len(frame[1].events) = Len(frame[2].events)
  /\ \A n \in 1 .. Len(frame[1].events) :
       \/ frame[1].events[n] = frame[2].events[n]
       \/ /\ frame[1].events[n].type = "status"
          /\ frame[2].events[n].type = "status"
          /\ frame[1].events[n].message \in DefaultStrings
  /\ frame[1].pc = "done" =>
       /\ frame[1].result = frame[2].result
       /\ conversation_history = twin_history

\* A run in which every status call failed went through a tool batch to its
\* finalization and appended its exchange.
C10_Witness ==
  /\ failing = StatusKinds
  /\ Finalized(frame[1])
  /\ frame[1].iteration >= 1
  /\ conversation_history # InitialStore
  /\ \A n \in 1 .. Len(frame[1].events) - 1 : frame[1].events[n].message \in DefaultStrings

(***************************************************************************)
(* PairSpec: a chat run (frame[1], store conversation_history) and a       *)
(* chat_stream run (frame[2], store twin_history) of the same message on   *)
(* the same session state.  The two runs get the same model responses and  *)
(* tool results: they take their model calls and tool dispatches together; *)
(* the status calls are steps of the stream alone, and any of them may     *)
(* fail.                                                                   *)
(***************************************************************************)
PairBegin ==
  /\ Both("idle")
  /\ quota > 0
  /\ quota' = quota - 1
  /\ failing' \in FaultPatterns
  /\ \E message \in UserMessages, session_id \in Sessions :
       SetBoth(BuildContext(impl, Started("chat", message, session_id, conversation_history),
                            conversation_history),
               Out([Started("stream", message, session_id, twin_history)
                      EXCEPT !.pc = "thinking"], twin_history))
  /\ UNCHANGED << impl, scenario, ops, last_added, executor, probe, tools >>

\* A status call of the stream; the chat run has none.
PairStatus(which, pc) ==
  /\ frame[2].pc = pc
  /\ SetBoth(Out(frame[1], conversation_history),
             OnStatus(impl, frame[2], twin_history, which, which \notin failing))
  /\ UNCHANGED << impl, scenario, quota, ops, last_added, failing, executor, probe, tools >>

PairThinking == PairStatus("thinking", "thinking")
\* The stream parses the arguments of the call before its tool status: when
\* the parse raises, both runs end there, the chat run in its dispatch.
PairToolStatus ==
  /\ frame[2].pc = "tool_status"
  /\ frame[1].pc = "tool"
  /\ SetBoth(IF ParseRaises(CurrentCall(frame[1]).arguments)
             THEN OnToolCall(impl, frame[1], conversation_history)
             ELSE Out(frame[1], conversation_history),
             OnStatus(impl, frame[2], twin_history, "tool", "tool" \notin failing))
  /\ UNCHANGED << impl, scenario, quota, ops, last_added, failing, executor, probe, tools >>
PairAnalysisStatus == PairStatus("analysis", "analysis_status")

PairCallModel ==
  /\ Both("llm")
  /\ \E resp \in Backend :
       SetBoth(OnResponse(impl, frame[1], conversation_history, resp),
               OnResponse(impl, frame[2], twin_history, resp))
  /\ UNCHANGED << impl, scenario, quota, ops, last_added, failing, executor, probe, tools >>

PairDispatchTool ==
  /\ Both("tool")
  /\ SetBoth(OnToolCall(impl, frame[1], conversation_history),
             OnToolCall(impl, frame[2], twin_history))
  /\ UNCHANGED << impl, scenario, quota, ops, last_added, failing, executor, probe, tools >>

PairNext ==
  \/ PairBegin
  \/ PairThinking
  \/ PairCallModel
  \/ PairToolStatus
  \/ PairDispatchTool
  \/ PairAnalysisStatus

PairSpec == Init /\ [][PairNext]_vars

\* C36: the stream never gets ahead of or behind the chat run by more than
\* its own status calls, the two runs build the same context and collect
\* the same cards, and when the stream has ended the chat run has ended,
\* the complete event of the stream, its only event that is not a status,
\* carries what chat returned, and the two stores are equal; chat emits
\* no event.
C36_StreamEqualsChat ==
  /\ frame[1].events = << >>
  /\ frame[2].pc \in { "llm", "tool" } =>
       /\ frame[1].pc = frame[2].pc
       /\ frame[1].messages = frame[2].messages
       /\ frame[1].collected_phones = frame[2].collected_phones
       /\ frame[1].comparison_table = frame[2].comparison_table
       /\ conversation_history = twin_history
  /\ frame[2].pc = "done" =>
       /\ frame[1].pc = "done"
       /\ frame[1].result = frame[2].result
       /\ frame[2].events[Len(frame[2].events)] = CompleteEvent(frame[1].result)
       /\ \A n \in 1 .. Len(frame[2].events) - 1 : frame[2].events[n].type = "status"
       /\ conversation_history = twin_history

\* Both runs went through a tool batch on the session with stored turns to
\* their finalization, with a failed status call in the stream.
C36_Witness ==
  /\ Finalized(frame[1])
  /\ Finalized(frame[2])
  /\ frame[1].mode = "chat"
  /\ frame[2].mode = "stream"
  /\ frame[2].session_id = "s2"
  /\ frame[2].iteration >= 1
  /\ frame[2].result.phones # << >>
  /\ failing # { }
  /\ twin_history # InitialStore

====
